---- MODULE Spec2Model ----
(***************************************************************************)
(* A model of the DXIL metadata codec, lib/HLSL/DxilMetadataHelper.cpp:    *)
(* the scalar codec, the record emit/load pairs, the named-metadata        *)
(* registry of the module and the dx.precise bridge.                       *)
(*                                                                         *)
(* Metadata nodes are records tagged by k:                                 *)
(*   "null"   an empty operand slot (nullptr)                              *)
(*   "int"    a ConstantInt of width w; its zero-extended value is         *)
(*            hi * 2^16 + lo (two 16-bit limbs, so that the 32-bit         *)
(*            pattern of -1 is representable)                              *)
(*   "fp"     a ConstantFP                                                 *)
(*   "str"    an MDString                                                  *)
(*   "val"    a ValueAsMetadata that refers to a symbol of the module      *)
(*   "data"   a ConstantDataArray                                          *)
(*   "tuple"  an MDTuple with operands ops                                 *)
(***************************************************************************)
EXTENDS Integers, Sequences, FiniteSets, TLC

VARIABLES
  named,        \* the module's named metadata: name -> [present, ops]
  insts,        \* the module's instructions [fp, call, unsafe, marker] by position
  fromBitCode,  \* Module::GetFromBitCode()
  kind,         \* the record kind the record codec is exercised on
  given,        \* the model record handed to emit / the state before a pass
  node,         \* the metadata node emitted, possibly damaged afterwards
  out,          \* the record a load has filled
  err,          \* the last call raised DXC_E_INCORRECT_DXIL_METADATA
  last,         \* the last operation performed
  calls         \* the number of calls made so far

vars == <<named, insts, fromBitCode, kind, given, node, out, err, last, calls>>

(***************************************************************************)
(* Bounds of the model.                                                    *)
(***************************************************************************)
MaxIdxLen == 2      \* longest semantic-index vector
MaxCalls == 3       \* longest sequence of registry calls
MaxInsts == 2       \* instructions in the module
MaxPasses == 3      \* longest sequence of dx.precise passes
MaxElems == 3       \* longest signature element list

(***************************************************************************)
(* Metadata nodes.                                                         *)
(***************************************************************************)
Null == [k |-> "null"]

Limb == 2^16

\* APInt(numBits, val): val reduced modulo 2^numBits.
APInt(w, x) ==
  [k |-> "int", w |-> w,
   hi |-> IF w > 16 THEN (x \div Limb) % Limb ELSE 0,
   lo |-> IF w >= 16 THEN x % Limb ELSE x % (2 ^ w)]

MDString(s) == [k |-> "str", s |-> s]

ValueAsMetadata(sym) == [k |-> "val", sym |-> sym]

MDNode(ops) == [k |-> "tuple", ops |-> ops]

IsNull(n) == n.k = "null"
IsTuple(n) == n.k = "tuple"
IsMDString(n) == n.k = "str"
NumOperands(n) == Len(n.ops)

\* ConstantInt::getZExtValue of narrow nodes and the C casts applied to it.
Low8(n) == n.lo % 256

Int32ToConstMD(v) == APInt(32, v)
Uint32ToConstMD(v) == APInt(32, v)
Int8ToConstMD(v) == APInt(8, v)
Uint8ToConstMD(v) == APInt(8, v)
BoolToConstMD(v) == APInt(1, IF v THEN 1 ELSE 0)
\* A 64-bit node; the values of the model are below 2^31, so its upper limbs
\* are zero and hi, lo hold the whole value.
Uint64ToConstMD(v) == APInt(64, v)

ConstMDToInt32(n) ==
  IF n.hi >= Limb \div 2 THEN (n.hi - Limb) * Limb + n.lo ELSE n.hi * Limb + n.lo
ConstMDToUint32(n) == n.hi * Limb + n.lo
ConstMDToInt8_ZExt(n) == n.hi * Limb + n.lo
ConstMDToInt8(n) == IF Low8(n) >= 128 THEN Low8(n) - 256 ELSE Low8(n)
ConstMDToUint8(n) == Low8(n)
ConstMDToBool(n) == n.hi # 0 \/ n.lo # 0
ConstMDToUint64(n) == n.hi * Limb + n.lo

StringMDToString(n) == n.s

RECURSIVE Uint32VectorOps(_)
Uint32VectorOps(Vec) ==
  IF Vec = <<>> THEN <<>>
  ELSE <<Uint32ToConstMD(Head(Vec))>> \o Uint32VectorOps(Tail(Vec))

Uint32VectorToConstMDTuple(Vec) == MDNode(Uint32VectorOps(Vec))

\* The vector read back; the caller has checked pTupleMD != nullptr.
ConstMDTupleToUint32Vector(pTupleMD) ==
  [i \in 1..NumOperands(pTupleMD) |-> ConstMDToUint32(pTupleMD.ops[i])]

\* The result of a load: the record as the call left it, and whether it threw.
Ok(rec) == [err |-> FALSE, rec |-> rec]
Fail(rec) == [err |-> TRUE, rec |-> rec]

\* Operand idx (0-based, as in the source) of a tuple.
Op(n, idx) == n.ops[idx + 1]

(***************************************************************************)
(* Record layouts (DxilMetadataHelper.h).  The constants of one record     *)
(* that share a prefix are the fields of one table: kDxilSRV.NumFields is  *)
(* kDxilSRVNumFields, kDxilSignatureElement.StartCol is                    *)
(* kDxilSignatureElementStartCol.                                          *)
(***************************************************************************)
kDxilSignatureElement ==
  [ID |-> 0, Name |-> 1, Type |-> 2, SystemValue |-> 3, IndexVector |-> 4,
   InterpMode |-> 5, Rows |-> 6, Cols |-> 7, StartRow |-> 8, StartCol |-> 9,
   NameValueList |-> 10, NumFields |-> 11, OutputStreamTag |-> 0,
   DynIdxCompMaskTag |-> 2]

kHLSignatureElementGlobalSymbolTag == 1

(***************************************************************************)
(* Signature elements.                                                     *)
(***************************************************************************)
\* A DxilSignatureElement as Sig.CreateElement() returns it.
FreshSE ==
  [id |-> -1, name |-> "", compType |-> 0, semKind |-> 0, semIdx |-> <<>>,
   interp |-> 0, rows |-> 0, cols |-> 0, startRow |-> -1, startCol |-> -1,
   outputStream |-> 0, dynIdxCompMask |-> 0]

\* DxilSignatureElement::Initialize
InitializeSE(SE, Name, CT, IM, Rows, Cols, StartRow, StartCol, ID, IndexVector) ==
  [SE EXCEPT !.id = ID, !.name = Name, !.compType = CT, !.interp = IM,
             !.semIdx = IndexVector, !.rows = Rows, !.cols = Cols,
             !.startRow = StartRow, !.startCol = StartCol, !.outputStream = 0]

EmitSignatureElementProperties(SE) ==
  (IF SE.outputStream # 0
     THEN <<Uint32ToConstMD(kDxilSignatureElement.OutputStreamTag),
            Uint32ToConstMD(SE.outputStream)>>
     ELSE <<>>)
  \o
  (IF SE.dynIdxCompMask # 0
     THEN <<Uint32ToConstMD(kDxilSignatureElement.DynIdxCompMaskTag),
            Uint32ToConstMD(SE.dynIdxCompMask)>>
     ELSE <<>>)

\* The tag loop of LoadSignatureElementProperties from operand pair i on.
\* DXASSERT compiles to nothing in a release build: an unknown tag is skipped.
RECURSIVE SEPropsLoop(_, _, _)
SEPropsLoop(ops, i, SE) ==
  IF i > Len(ops) THEN Ok(SE)
  ELSE LET Tag == ConstMDToUint32(ops[i])
           MDO == ops[i + 1]
       IN IF Tag = kDxilSignatureElement.OutputStreamTag
            THEN SEPropsLoop(ops, i + 2, [SE EXCEPT !.outputStream = ConstMDToUint32(MDO)])
          ELSE IF Tag = kHLSignatureElementGlobalSymbolTag
            THEN SEPropsLoop(ops, i + 2, SE)
          ELSE IF Tag = kDxilSignatureElement.DynIdxCompMaskTag
            THEN SEPropsLoop(ops, i + 2, [SE EXCEPT !.dynIdxCompMask = ConstMDToUint32(MDO)])
          ELSE SEPropsLoop(ops, i + 2, SE)

LoadSignatureElementProperties(MDO, SE) ==
  IF IsNull(MDO) THEN Ok(SE)
  ELSE IF ~IsTuple(MDO) THEN Fail(SE)
  ELSE IF NumOperands(MDO) % 2 # 0 THEN Fail(SE)
  ELSE SEPropsLoop(MDO.ops, 1, SE)

EmitSignatureElement(SE) ==
  LET MDExtraVals == EmitSignatureElementProperties(SE)
  IN MDNode(<<Uint32ToConstMD(SE.id),
              MDString(SE.name),
              Uint8ToConstMD(SE.compType),
              Uint8ToConstMD(SE.semKind),
              Uint32VectorToConstMDTuple(SE.semIdx),
              Uint8ToConstMD(SE.interp),
              Uint32ToConstMD(SE.rows),
              Uint8ToConstMD(SE.cols),
              Int32ToConstMD(SE.startRow),
              Int8ToConstMD(SE.startCol),
              IF MDExtraVals # <<>> THEN MDNode(MDExtraVals) ELSE Null>>)

\* LoadSignatureElement once the shape of the tuple has been checked.
LoadSignatureElementFields(MDO, SE) ==
  LET ID == ConstMDToUint32(Op(MDO, kDxilSignatureElement.ID))
      pName == Op(MDO, kDxilSignatureElement.Name)
      CT == ConstMDToUint8(Op(MDO, kDxilSignatureElement.Type))
      SemKind == ConstMDToUint8(Op(MDO, kDxilSignatureElement.SystemValue))
      pSemanticIndexVectorMD == Op(MDO, kDxilSignatureElement.IndexVector)
      IM == ConstMDToUint8(Op(MDO, kDxilSignatureElement.InterpMode))
      NumRows == ConstMDToUint32(Op(MDO, kDxilSignatureElement.Rows))
      NumCols == ConstMDToUint8(Op(MDO, kDxilSignatureElement.Cols))
      StartRow == ConstMDToInt32(Op(MDO, kDxilSignatureElement.StartRow))
      StartCol == ConstMDToInt8(Op(MDO, kDxilSignatureElement.StartCol))
  IN IF ~IsMDString(pName) THEN Fail(SE)
     ELSE IF ~IsTuple(pSemanticIndexVectorMD) THEN Fail(SE)
     ELSE LET SemanticIndexVector == ConstMDTupleToUint32Vector(pSemanticIndexVectorMD)
              SE1 == InitializeSE(SE, pName.s, CT, IM, NumRows, NumCols,
                                  StartRow, StartCol, ID, SemanticIndexVector)
              SE2 == [SE1 EXCEPT !.semKind = SemKind]
          IN LoadSignatureElementProperties(
               Op(MDO, kDxilSignatureElement.NameValueList), SE2)

LoadSignatureElement_AtLeast(MDO, SE) ==
  IF IsNull(MDO) THEN Fail(SE)
  ELSE IF ~IsTuple(MDO) THEN Fail(SE)
  ELSE IF NumOperands(MDO) < kDxilSignatureElement.NumFields THEN Fail(SE)
  ELSE LoadSignatureElementFields(MDO, SE)
LoadSignatureElement(MDO, SE) ==
  IF IsNull(MDO) THEN Fail(SE)
  ELSE IF ~IsTuple(MDO) THEN Fail(SE)
  ELSE IF NumOperands(MDO) # kDxilSignatureElement.NumFields THEN Fail(SE)
  ELSE LoadSignatureElementFields(MDO, SE)

(***************************************************************************)
(* Resources.                                                              *)
(***************************************************************************)
kDxilResourceBase ==
  [ID |-> 0, Variable |-> 1, Name |-> 2, SpaceID |-> 3, LowerBound |-> 4,
   RangeSize |-> 5, NumFields |-> 6]

kDxilSRV ==
  [Shape |-> 6, SampleCount |-> 7, NameValueList |-> 8, NumFields |-> 9]

kDxilUAV ==
  [Shape |-> 6, GloballyCoherent |-> 7, Counter |-> 8, RasterizerOrderedView |-> 9,
   NameValueList |-> 10, NumFields |-> 11]

kDxilCBuffer ==
  [SizeInBytes |-> 6, NameValueList |-> 7, NumFields |-> 8]

kDxilSampler ==
  [Type |-> 6, NameValueList |-> 7, NumFields |-> 8]

kDxilTypedBufferElementTypeTag == 0
kDxilStructuredBufferElementStrideTag == 1
kHLCBufferIsTBufferTag == 0

\* DXIL::ResourceKind, DXIL::ResourceClass, DXIL::ComponentType, DXIL::SamplerKind
KindInvalid == 0
KindTexture2D == 2
KindTypedBuffer == 10
KindRawBuffer == 11
KindStructuredBuffer == 12
KindCBuffer == 13
KindSampler == 14
KindTBuffer == 15

ClassSRV == 0
ClassUAV == 1
ClassCBuffer == 2
ClassSampler == 3
ClassInvalid == 4

CompTypeInvalid == 0
CompTypeF32 == 9

SamplerKindInvalid == 3

\* DxilResourceBase as its constructor leaves it (the id is UINT_MAX, written -1).
FreshBase(C) ==
  [class |-> C, kind |-> KindInvalid, id |-> -1, globalSymbol |-> "",
   globalName |-> "", spaceID |-> 0, lowerBound |-> 0, rangeSize |-> 0]

Merge(f, g) == [x \in (DOMAIN f) \cup (DOMAIN g) |-> IF x \in DOMAIN g THEN g[x] ELSE f[x]]

\* DxilResource(), DxilCBuffer(), DxilSampler()
FreshResource ==
  Merge(FreshBase(ClassInvalid),
        [sampleCount |-> 0, elementStride |-> 0, compType |-> CompTypeInvalid,
         globallyCoherent |-> FALSE, hasCounter |-> FALSE, rov |-> FALSE])
FreshCBuffer ==
  Merge([FreshBase(ClassCBuffer) EXCEPT !.kind = KindCBuffer], [size |-> 0])
FreshSampler ==
  Merge([FreshBase(ClassSampler) EXCEPT !.kind = KindSampler],
        [samplerKind |-> SamplerKindInvalid])

IsStructuredBuffer(R) == R.kind = KindStructuredBuffer
IsRawBuffer(R) == R.kind = KindRawBuffer

\* The six slots EmitDxilResourceBase fills.
EmitDxilResourceBase(R) ==
  <<Uint32ToConstMD(R.id),
    ValueAsMetadata(R.globalSymbol),
    MDString(R.globalName),
    Uint32ToConstMD(R.spaceID),
    Uint32ToConstMD(R.lowerBound),
    Uint32ToConstMD(R.rangeSize)>>

\* ValueMDToValue throws on a null operand and on one that is no value.
IsValueMD(n) == n.k = "val"

LoadDxilResourceBase(MDO, R) ==
  IF IsNull(MDO) THEN Fail(R)
  ELSE IF ~IsTuple(MDO) THEN Fail(R)
  ELSE IF ~(NumOperands(MDO) >= kDxilResourceBase.NumFields) THEN Fail(R)
  ELSE LET R1 == [R EXCEPT !.id = ConstMDToUint32(Op(MDO, kDxilResourceBase.ID))]
       IN IF ~IsValueMD(Op(MDO, kDxilResourceBase.Variable)) THEN Fail(R1)
          ELSE LET R2 == [R1 EXCEPT !.globalSymbol = Op(MDO, kDxilResourceBase.Variable).sym]
               IN IF ~IsMDString(Op(MDO, kDxilResourceBase.Name)) THEN Fail(R2)
                  ELSE Ok([R2 EXCEPT
                         !.globalName = StringMDToString(Op(MDO, kDxilResourceBase.Name)),
                         !.spaceID = ConstMDToUint32(Op(MDO, kDxilResourceBase.SpaceID)),
                         !.lowerBound = ConstMDToUint32(Op(MDO, kDxilResourceBase.LowerBound)),
                         !.rangeSize = ConstMDToUint32(Op(MDO, kDxilResourceBase.RangeSize))])

EmitSRVProperties_StrideUnlessTyped(SRV) ==
  IF ~IsStructuredBuffer(SRV) /\ ~IsRawBuffer(SRV)
    THEN <<Uint32ToConstMD(kDxilTypedBufferElementTypeTag), Uint32ToConstMD(SRV.compType)>>
    ELSE <<Uint32ToConstMD(kDxilStructuredBufferElementStrideTag),
           Uint32ToConstMD(SRV.elementStride)>>
\* EmitSRVProperties and EmitUAVProperties have the same body.
EmitSRVProperties(SRV) ==
  (IF ~IsStructuredBuffer(SRV) /\ ~IsRawBuffer(SRV)
     THEN <<Uint32ToConstMD(kDxilTypedBufferElementTypeTag), Uint32ToConstMD(SRV.compType)>>
     ELSE <<>>)
  \o
  (IF IsStructuredBuffer(SRV)
     THEN <<Uint32ToConstMD(kDxilStructuredBufferElementStrideTag),
            Uint32ToConstMD(SRV.elementStride)>>
     ELSE <<>>)
EmitUAVProperties(UAV) == EmitSRVProperties(UAV)

\* The tag loop of LoadSRVProperties / LoadUAVProperties from operand pair i on
\* (DXASSERT compiles to nothing in a release build).
RECURSIVE SRVPropsLoop(_, _, _)
SRVPropsLoop(ops, i, SRV) ==
  IF i > Len(ops) THEN Ok(SRV)
  ELSE LET Tag == ConstMDToUint32(ops[i])
           MDO == ops[i + 1]
       IN IF Tag = kDxilTypedBufferElementTypeTag
            THEN SRVPropsLoop(ops, i + 2, [SRV EXCEPT !.compType = ConstMDToUint32(MDO)])
          ELSE IF Tag = kDxilStructuredBufferElementStrideTag
            THEN SRVPropsLoop(ops, i + 2, [SRV EXCEPT !.elementStride = ConstMDToUint32(MDO)])
          ELSE SRVPropsLoop(ops, i + 2, SRV)

LoadSRVProperties_NoReset(MDO, SRV) ==
  IF IsNull(MDO) THEN Ok(SRV)
  ELSE IF ~IsTuple(MDO) \/ NumOperands(MDO) % 2 # 0 THEN Fail(SRV)
  ELSE SRVPropsLoop(MDO.ops, 1, SRV)
LoadSRVProperties(MDO, SRV) ==
  LET R1 == [SRV EXCEPT !.elementStride = IF IsRawBuffer(SRV) THEN 1 ELSE 4,
                        !.compType = CompTypeInvalid]
  IN IF IsNull(MDO) THEN Ok(R1)
     ELSE IF ~IsTuple(MDO) THEN Fail(R1)
     ELSE IF NumOperands(MDO) % 2 # 0 THEN Fail(R1)
     ELSE SRVPropsLoop(MDO.ops, 1, R1)
LoadUAVProperties(MDO, UAV) == LoadSRVProperties(MDO, UAV)

NameValueList(MDExtraVals) == IF MDExtraVals # <<>> THEN MDNode(MDExtraVals) ELSE Null

EmitDxilSRV(SRV) ==
  MDNode(EmitDxilResourceBase(SRV)
         \o <<Uint32ToConstMD(SRV.kind), Uint32ToConstMD(SRV.sampleCount),
              NameValueList(EmitSRVProperties(SRV))>>)

LoadDxilSRV(MDO, SRV) ==
  IF IsNull(MDO) THEN Fail(SRV)
  ELSE IF ~IsTuple(MDO) THEN Fail(SRV)
  ELSE IF NumOperands(MDO) # kDxilSRV.NumFields THEN Fail(SRV)
  ELSE LET b == LoadDxilResourceBase(MDO, [SRV EXCEPT !.class = ClassSRV])
       IN IF b.err THEN b
          ELSE LoadSRVProperties(Op(MDO, kDxilSRV.NameValueList),
                 [b.rec EXCEPT !.kind = ConstMDToUint32(Op(MDO, kDxilSRV.Shape)),
                               !.sampleCount = ConstMDToUint32(Op(MDO, kDxilSRV.SampleCount))])

EmitDxilUAV(UAV) ==
  MDNode(EmitDxilResourceBase(UAV)
         \o <<Uint32ToConstMD(UAV.kind), BoolToConstMD(UAV.globallyCoherent),
              BoolToConstMD(UAV.hasCounter), BoolToConstMD(UAV.rov),
              NameValueList(EmitUAVProperties(UAV))>>)

LoadDxilUAV(MDO, UAV) ==
  IF IsNull(MDO) THEN Fail(UAV)
  ELSE IF ~IsTuple(MDO) THEN Fail(UAV)
  ELSE IF NumOperands(MDO) # kDxilUAV.NumFields THEN Fail(UAV)
  ELSE LET b == LoadDxilResourceBase(MDO, [UAV EXCEPT !.class = ClassUAV])
       IN IF b.err THEN b
          ELSE LoadUAVProperties(Op(MDO, kDxilUAV.NameValueList),
                 [b.rec EXCEPT !.kind = ConstMDToUint32(Op(MDO, kDxilUAV.Shape)),
                               !.globallyCoherent = ConstMDToBool(Op(MDO, kDxilUAV.GloballyCoherent)),
                               !.hasCounter = ConstMDToBool(Op(MDO, kDxilUAV.Counter)),
                               !.rov = ConstMDToBool(Op(MDO, kDxilUAV.RasterizerOrderedView))])

EmitCBufferProperties(CB) ==
  IF CB.kind = KindTBuffer
    THEN <<Uint32ToConstMD(kHLCBufferIsTBufferTag), BoolToConstMD(TRUE)>>
    ELSE <<>>

RECURSIVE CBPropsLoop(_, _, _)
CBPropsLoop(ops, i, CB) ==
  IF i > Len(ops) THEN Ok(CB)
  ELSE LET Tag == ConstMDToUint32(ops[i])
           MDO == ops[i + 1]
       IN IF Tag = kHLCBufferIsTBufferTag /\ ConstMDToBool(MDO)
            THEN CBPropsLoop(ops, i + 2, [CB EXCEPT !.kind = KindTBuffer])
            ELSE CBPropsLoop(ops, i + 2, CB)

LoadCBufferProperties(MDO, CB) ==
  IF IsNull(MDO) THEN Ok(CB)
  ELSE IF ~IsTuple(MDO) THEN Fail(CB)
  ELSE IF NumOperands(MDO) % 2 # 0 THEN Fail(CB)
  ELSE CBPropsLoop(MDO.ops, 1, [CB EXCEPT !.kind = KindCBuffer])

EmitDxilCBuffer(CB) ==
  MDNode(EmitDxilResourceBase(CB)
         \o <<Uint32ToConstMD(CB.size), NameValueList(EmitCBufferProperties(CB))>>)

LoadDxilCBuffer(MDO, CB) ==
  IF IsNull(MDO) THEN Fail(CB)
  ELSE IF ~IsTuple(MDO) THEN Fail(CB)
  ELSE IF NumOperands(MDO) # kDxilCBuffer.NumFields THEN Fail(CB)
  ELSE LET b == LoadDxilResourceBase(MDO, CB)
       IN IF b.err THEN b
          ELSE LoadCBufferProperties(Op(MDO, kDxilCBuffer.NameValueList),
                 [b.rec EXCEPT !.size = ConstMDToUint32(Op(MDO, kDxilCBuffer.SizeInBytes))])

\* "Nothing yet": no pair is emitted and the list is not looked at.
EmitSamplerProperties(S) == <<>>
LoadSamplerProperties(MDO, S) == Ok(S)

EmitDxilSampler(S) ==
  MDNode(EmitDxilResourceBase(S)
         \o <<Uint32ToConstMD(S.samplerKind), NameValueList(EmitSamplerProperties(S))>>)

LoadDxilSampler(MDO, S) ==
  IF IsNull(MDO) THEN Fail(S)
  ELSE IF ~IsTuple(MDO) THEN Fail(S)
  ELSE IF NumOperands(MDO) # kDxilSampler.NumFields THEN Fail(S)
  ELSE LET b == LoadDxilResourceBase(MDO, S)
       IN IF b.err THEN b
          ELSE LoadSamplerProperties(Op(MDO, kDxilSampler.NameValueList),
                 [b.rec EXCEPT !.samplerKind = ConstMDToUint32(Op(MDO, kDxilSampler.Type))])

\* The resource attribute node: the resource class, then the resource tuple.
kHLDxilResourceAttribute == [Class |-> 0, Meta |-> 1, NumFields |-> 2]

GetResourceClass(MD) ==
  IF ~(NumOperands(MD) >= kHLDxilResourceAttribute.NumFields)
    THEN [err |-> TRUE, RC |-> ClassInvalid, Meta |-> Null]
    ELSE [err |-> FALSE, RC |-> ConstMDToUint32(Op(MD, kHLDxilResourceAttribute.Class)),
          Meta |-> Op(MD, kHLDxilResourceAttribute.Meta)]

\* R = X through a reference to the base class: the base fields are copied.
AssignBase(R, X) == Merge(R, [f \in DOMAIN FreshBase(ClassInvalid) |-> X[f]])

\* The load of a local record followed by the assignment, which an exception
\* of the load skips.
LoadThenAssign(r, R) == IF r.err THEN Fail(R) ELSE Ok(AssignBase(R, r.rec))

LoadDxilResourceBaseFromMDNode(MD, R) ==
  LET g == GetResourceClass(MD)
  IN IF g.err THEN Fail(R)
     ELSE CASE g.RC = ClassCBuffer -> LoadThenAssign(LoadDxilCBuffer(g.Meta, FreshCBuffer), R)
            [] g.RC = ClassSampler -> LoadThenAssign(LoadDxilSampler(g.Meta, FreshSampler), R)
            [] g.RC = ClassSRV -> LoadThenAssign(LoadDxilSRV(g.Meta, FreshResource), R)
            [] g.RC = ClassUAV -> LoadThenAssign(LoadDxilUAV(g.Meta, FreshResource), R)
            [] OTHER -> Ok(R)

\* The dispatch with every class decoded as an SRV.
LoadDxilResourceFromMDNode_NoDispatch(MD, R) ==
  LET g == GetResourceClass(MD)
  IN IF g.err THEN Fail(R) ELSE LoadDxilSRV(g.Meta, R)

LoadDxilResourceFromMDNode(MD, R) ==
  LET g == GetResourceClass(MD)
  IN IF g.err THEN Fail(R)
     ELSE CASE g.RC = ClassSRV -> LoadDxilSRV(g.Meta, R)
            [] g.RC = ClassUAV -> LoadDxilUAV(g.Meta, R)
            [] OTHER -> Ok(R)

LoadDxilSamplerFromMDNode(MD, S) ==
  LET g == GetResourceClass(MD)
  IN IF g.err THEN Fail(S)
     ELSE CASE g.RC = ClassSampler -> LoadDxilSampler(g.Meta, S)
            [] OTHER -> Ok(S)

(***************************************************************************)
(* Signatures.                                                             *)
(***************************************************************************)
kDxilInputSignature == 0
kDxilOutputSignature == 1
kDxilPatchConstantSignature == 2
kDxilNumSignatureFields == 3

RECURSIVE EmitSignatureElements(_)
EmitSignatureElements(Elements) ==
  IF Elements = <<>> THEN <<>>
  ELSE <<EmitSignatureElement(Head(Elements))>> \o EmitSignatureElements(Tail(Elements))

EmitSignatureMetadata(Sig) ==
  IF Sig = <<>> THEN Null ELSE MDNode(EmitSignatureElements(Sig))

\* The loop of LoadSignatureMetadata from operand i on: an element is appended
\* only after its load returned.
RECURSIVE SigLoop(_, _, _)
SigLoop(ops, i, Sig) ==
  IF i > Len(ops) THEN Ok(Sig)
  ELSE LET r == LoadSignatureElement(ops[i], FreshSE)
       IN IF r.err THEN Fail(Sig) ELSE SigLoop(ops, i + 1, Append(Sig, r.rec))

LoadSignatureMetadata(MDO, Sig) ==
  IF IsNull(MDO) THEN Ok(Sig)
  ELSE IF ~IsTuple(MDO) THEN Fail(Sig)
  ELSE SigLoop(MDO.ops, 1, Sig)

\* Sigs is [input, output, pc], each the element list of one DxilSignature.
EmitDxilSignatures(Sigs) ==
  IF Sigs.input # <<>> \/ Sigs.output # <<>> \/ Sigs.pc # <<>>
    THEN MDNode(<<EmitSignatureMetadata(Sigs.input),
                  EmitSignatureMetadata(Sigs.output),
                  EmitSignatureMetadata(Sigs.pc)>>)
    ELSE Null

LoadDxilSignatures(MDO, Sigs) ==
  IF IsNull(MDO) THEN Ok(Sigs)
  ELSE IF ~IsTuple(MDO) THEN Fail(Sigs)
  ELSE IF NumOperands(MDO) # kDxilNumSignatureFields THEN Fail(Sigs)
  ELSE LET a == LoadSignatureMetadata(Op(MDO, kDxilInputSignature), Sigs.input)
           S1 == [Sigs EXCEPT !.input = a.rec]
       IN IF a.err THEN Fail(S1)
          ELSE LET b == LoadSignatureMetadata(Op(MDO, kDxilOutputSignature), Sigs.output)
                   S2 == [S1 EXCEPT !.output = b.rec]
               IN IF b.err THEN Fail(S2)
                  ELSE LET c == LoadSignatureMetadata(Op(MDO, kDxilPatchConstantSignature), Sigs.pc)
                           S3 == [S2 EXCEPT !.pc = c.rec]
                       IN IF c.err THEN Fail(S3) ELSE Ok(S3)

(***************************************************************************)
(* Entry points.                                                           *)
(***************************************************************************)
kDxilEntryPoint ==
  [Function |-> 0, Name |-> 1, Signatures |-> 2, Resources |-> 3, Properties |-> 4,
   NumFields |-> 5]

\* Symbols of the module; NullPtr is a null Function* / Constant*.
NullPtr == "nullptr"
FunctionSyms == {"main", "patchconst"}
IsFunction(sym) == sym \in FunctionSyms

\* E is [func, name, signatures, resources, properties].
EmitDxilEntryPointTuple(E) ==
  MDNode(<<IF E.func # NullPtr THEN ValueAsMetadata(E.func) ELSE Null,
           MDString(E.name), E.signatures, E.resources, E.properties>>)

GetDxilEntryPoint(MDO, E) ==
  IF IsNull(MDO) THEN Fail(E)
  ELSE IF ~IsTuple(MDO) THEN Fail(E)
  ELSE IF NumOperands(MDO) # kDxilEntryPoint.NumFields THEN Fail(E)
  ELSE LET MDOFunc == Op(MDO, kDxilEntryPoint.Function)
           MDOName == Op(MDO, kDxilEntryPoint.Name)
       IN IF ~IsNull(MDOFunc) /\ ~IsValueMD(MDOFunc) THEN Fail(E)
          ELSE IF ~IsNull(MDOFunc) /\ ~IsFunction(MDOFunc.sym)
            THEN Fail([E EXCEPT !.func = NullPtr])
          ELSE LET E1 == [E EXCEPT !.func = IF IsNull(MDOFunc) THEN NullPtr ELSE MDOFunc.sym]
               IN IF IsNull(MDOName) \/ ~IsMDString(MDOName) THEN Fail(E1)
                  ELSE Ok([E1 EXCEPT !.name = MDOName.s,
                                     !.signatures = Op(MDO, kDxilEntryPoint.Signatures),
                                     !.resources = Op(MDO, kDxilEntryPoint.Resources),
                                     !.properties = Op(MDO, kDxilEntryPoint.Properties)])

(***************************************************************************)
(* Shader-stage state tuples.                                              *)
(***************************************************************************)
kDxilGSStateNumFields == 5
kDxilDSStateNumFields == 2
kDxilHSStateNumFields == 7

FloatToConstMD(v) == [k |-> "fp", f |-> v]
ConstMDToFloat(n) == n.f

\* G is [primitive, maxVertexCount, activeStreamMask, topology, instanceCount].
EmitDxilGSState(G) ==
  MDNode(<<Uint32ToConstMD(G.primitive), Uint32ToConstMD(G.maxVertexCount),
           Uint32ToConstMD(G.activeStreamMask), Uint32ToConstMD(G.topology),
           Uint32ToConstMD(G.instanceCount)>>)

LoadDxilGSState(MDO, G) ==
  IF IsNull(MDO) THEN Fail(G)
  ELSE IF ~IsTuple(MDO) THEN Fail(G)
  ELSE IF NumOperands(MDO) # kDxilGSStateNumFields THEN Fail(G)
  ELSE Ok([primitive |-> ConstMDToUint32(Op(MDO, 0)),
           maxVertexCount |-> ConstMDToUint32(Op(MDO, 1)),
           activeStreamMask |-> ConstMDToUint32(Op(MDO, 2)),
           topology |-> ConstMDToUint32(Op(MDO, 3)),
           instanceCount |-> ConstMDToUint32(Op(MDO, 4))])

\* D is [domain, inputControlPointCount].
EmitDxilDSState(D) ==
  MDNode(<<Uint32ToConstMD(D.domain), Uint32ToConstMD(D.inputControlPointCount)>>)

LoadDxilDSState(MDO, D) ==
  IF IsNull(MDO) THEN Fail(D)
  ELSE IF ~IsTuple(MDO) THEN Fail(D)
  ELSE IF NumOperands(MDO) # kDxilDSStateNumFields THEN Fail(D)
  ELSE Ok([domain |-> ConstMDToUint32(Op(MDO, 0)),
           inputControlPointCount |-> ConstMDToUint32(Op(MDO, 1))])

\* H is [patchConstantFunction, inputControlPointCount, outputControlPointCount,
\*       domain, partitioning, outputPrimitive, maxTessFactor].
EmitDxilHSState(H) ==
  MDNode(<<ValueAsMetadata(H.patchConstantFunction),
           Uint32ToConstMD(H.inputControlPointCount),
           Uint32ToConstMD(H.outputControlPointCount),
           Uint32ToConstMD(H.domain), Uint32ToConstMD(H.partitioning),
           Uint32ToConstMD(H.outputPrimitive), FloatToConstMD(H.maxTessFactor)>>)

\* dyn_cast<Function> of a value that is no function yields a null pointer.
LoadDxilHSState(MDO, H) ==
  IF IsNull(MDO) THEN Fail(H)
  ELSE IF ~IsTuple(MDO) THEN Fail(H)
  ELSE IF NumOperands(MDO) # kDxilHSStateNumFields THEN Fail(H)
  ELSE IF ~IsValueMD(Op(MDO, 0)) THEN Fail(H)
  ELSE Ok([patchConstantFunction |->
             IF IsFunction(Op(MDO, 0).sym) THEN Op(MDO, 0).sym ELSE NullPtr,
           inputControlPointCount |-> ConstMDToUint32(Op(MDO, 1)),
           outputControlPointCount |-> ConstMDToUint32(Op(MDO, 2)),
           domain |-> ConstMDToUint32(Op(MDO, 3)),
           partitioning |-> ConstMDToUint32(Op(MDO, 4)),
           outputPrimitive |-> ConstMDToUint32(Op(MDO, 5)),
           maxTessFactor |-> ConstMDToFloat(Op(MDO, 6))])

(***************************************************************************)
(* Type-system annotations.                                                *)
(***************************************************************************)
kDxilFieldAnnotation ==
  [MatrixTag |-> 2, CBufferOffsetTag |-> 3, SemanticStringTag |-> 4,
   InterpolationModeTag |-> 5, FieldNameTag |-> 6, CompTypeTag |-> 7, PreciseTag |-> 8]

kDxilTypeSystem ==
  [StructTag |-> 0, FunctionTag |-> 1]

\* An unset cbuffer offset is UINT_MAX, written -1.
NoOffset == -1
NoMatrix == [rows |-> 0, cols |-> 0, orientation |-> 0]

\* DxilFieldAnnotation()
FreshFieldAnnotation ==
  [fieldName |-> "", precise |-> FALSE, matrix |-> NoMatrix,
   cbufferOffset |-> NoOffset, semanticString |-> "", interp |-> 0,
   compType |-> CompTypeInvalid]

HasFieldName(FA) == FA.fieldName # ""
IsPrecise(FA) == FA.precise
HasMatrixAnnotation(FA) == FA.matrix.cols # 0
HasCBufferOffset(FA) == FA.cbufferOffset # NoOffset
HasSemanticString(FA) == FA.semanticString # ""
HasInterpolationMode(FA) == FA.interp # 0
HasCompType(FA) == FA.compType # CompTypeInvalid

EmitDxilFieldAnnotation(FA) ==
  MDNode(
    (IF HasFieldName(FA)
       THEN <<Uint32ToConstMD(kDxilFieldAnnotation.FieldNameTag), MDString(FA.fieldName)>>
       ELSE <<>>)
    \o (IF IsPrecise(FA)
       THEN <<Uint32ToConstMD(kDxilFieldAnnotation.PreciseTag), BoolToConstMD(TRUE)>>
       ELSE <<>>)
    \o (IF HasMatrixAnnotation(FA)
       THEN <<Uint32ToConstMD(kDxilFieldAnnotation.MatrixTag),
              MDNode(<<Uint32ToConstMD(FA.matrix.rows), Uint32ToConstMD(FA.matrix.cols),
                       Uint32ToConstMD(FA.matrix.orientation)>>)>>
       ELSE <<>>)
    \o (IF HasCBufferOffset(FA)
       THEN <<Uint32ToConstMD(kDxilFieldAnnotation.CBufferOffsetTag),
              Uint32ToConstMD(FA.cbufferOffset)>>
       ELSE <<>>)
    \o (IF HasSemanticString(FA)
       THEN <<Uint32ToConstMD(kDxilFieldAnnotation.SemanticStringTag),
              MDString(FA.semanticString)>>
       ELSE <<>>)
    \o (IF HasInterpolationMode(FA)
       THEN <<Uint32ToConstMD(kDxilFieldAnnotation.InterpolationModeTag),
              Uint32ToConstMD(FA.interp)>>
       ELSE <<>>)
    \o (IF HasCompType(FA)
       THEN <<Uint32ToConstMD(kDxilFieldAnnotation.CompTypeTag), Uint32ToConstMD(FA.compType)>>
       ELSE <<>>))

\* The tag loop of LoadDxilFieldAnnotation from operand pair i on.
RECURSIVE FieldAnnotationLoop(_, _, _)
FieldAnnotationLoop(ops, i, FA) ==
  IF i > Len(ops) THEN Ok(FA)
  ELSE LET Tag == ConstMDToUint32(ops[i])
           MDO == ops[i + 1]
       IN IF IsNull(MDO) THEN Fail(FA)
          ELSE IF Tag = kDxilFieldAnnotation.PreciseTag
            THEN FieldAnnotationLoop(ops, i + 2, [FA EXCEPT !.precise = ConstMDToBool(MDO)])
          ELSE IF Tag = kDxilFieldAnnotation.MatrixTag
            THEN IF ~IsTuple(MDO) THEN Fail(FA)
                 ELSE IF NumOperands(MDO) # 3 THEN Fail(FA)
                 ELSE FieldAnnotationLoop(ops, i + 2,
                        [FA EXCEPT !.matrix = [rows |-> ConstMDToUint32(Op(MDO, 0)),
                                               cols |-> ConstMDToUint32(Op(MDO, 1)),
                                               orientation |-> ConstMDToUint32(Op(MDO, 2))]])
          ELSE IF Tag = kDxilFieldAnnotation.CBufferOffsetTag
            THEN FieldAnnotationLoop(ops, i + 2, [FA EXCEPT !.cbufferOffset = ConstMDToUint32(MDO)])
          ELSE IF Tag = kDxilFieldAnnotation.SemanticStringTag
            THEN IF ~IsMDString(MDO) THEN Fail(FA)
                 ELSE FieldAnnotationLoop(ops, i + 2, [FA EXCEPT !.semanticString = MDO.s])
          ELSE IF Tag = kDxilFieldAnnotation.InterpolationModeTag
            THEN FieldAnnotationLoop(ops, i + 2, [FA EXCEPT !.interp = ConstMDToUint32(MDO)])
          ELSE IF Tag = kDxilFieldAnnotation.FieldNameTag
            THEN IF ~IsMDString(MDO) THEN Fail(FA)
                 ELSE FieldAnnotationLoop(ops, i + 2, [FA EXCEPT !.fieldName = MDO.s])
          ELSE IF Tag = kDxilFieldAnnotation.CompTypeTag
            THEN FieldAnnotationLoop(ops, i + 2, [FA EXCEPT !.compType = ConstMDToUint32(MDO)])
          ELSE Fail(FA)

\* The load with the tag loop started at the second pair.
LoadDxilFieldAnnotation_SkipFirstPair(MDO, FA) ==
  IF IsNull(MDO) \/ ~IsTuple(MDO) THEN Fail(FA)
  ELSE IF NumOperands(MDO) % 2 # 0 THEN Fail(FA)
  ELSE FieldAnnotationLoop(MDO.ops, 3, FA)

LoadDxilFieldAnnotation(MDO, FA) ==
  IF IsNull(MDO) THEN Fail(FA)
  ELSE IF ~IsTuple(MDO) THEN Fail(FA)
  ELSE IF NumOperands(MDO) % 2 # 0 THEN Fail(FA)
  ELSE FieldAnnotationLoop(MDO.ops, 1, FA)

\* A DxilParameterAnnotation is a field annotation with an input qualifier and
\* a semantic-index vector.
FreshParamAnnotation ==
  Merge(FreshFieldAnnotation, [paramInputQual |-> 0, semIdx |-> <<>>])

FieldPart(PA) == [f \in DOMAIN FreshFieldAnnotation |-> PA[f]]

EmitDxilParamAnnotation(PA) ==
  MDNode(<<Uint32ToConstMD(PA.paramInputQual),
           EmitDxilFieldAnnotation(FieldPart(PA)),
           Uint32VectorToConstMDTuple(PA.semIdx)>>)

LoadDxilParamAnnotation(MDO, PA) ==
  IF IsNull(MDO) THEN Fail(PA)
  ELSE IF ~IsTuple(MDO) THEN Fail(PA)
  ELSE IF NumOperands(MDO) # 3 THEN Fail(PA)
  ELSE LET PA1 == [PA EXCEPT !.paramInputQual = ConstMDToUint32(Op(MDO, 0))]
           f == LoadDxilFieldAnnotation(Op(MDO, 1), FieldPart(PA1))
           PA2 == Merge(PA1, f.rec)
       IN IF f.err THEN Fail(PA2)
          ELSE IF ~IsTuple(Op(MDO, 2)) THEN Fail(PA2)
          ELSE Ok([PA2 EXCEPT !.semIdx = ConstMDTupleToUint32Vector(Op(MDO, 2))])

\* S is [structType, cbufferSize, fields]; F is [function, ret, params].
RECURSIVE EmitFieldAnnotations(_)
EmitFieldAnnotations(fields) ==
  IF fields = <<>> THEN <<>>
  ELSE <<EmitDxilFieldAnnotation(Head(fields))>> \o EmitFieldAnnotations(Tail(fields))

EmitDxilStructAnnotation(SA) ==
  MDNode(<<Uint32ToConstMD(SA.cbufferSize)>> \o EmitFieldAnnotations(SA.fields))

\* The element types of the struct types of the module; SEmpty is the struct
\* an empty HLSL struct becomes, its only element the 8-bit marker.
StructElementTypes ==
  [S0 |-> <<"float">>, SEmpty |-> <<"i8">>, SByte |-> <<"i8">>, SInt |-> <<"i32">>]

\* DxilTypeSystem::AddStructAnnotation: one field annotation per element.
AddStructAnnotation(structType) ==
  [structType |-> structType, cbufferSize |-> 0,
   fields |-> [i \in 1..Len(StructElementTypes[structType]) |-> FreshFieldAnnotation]]

\* An empty struct is one without field annotations.
MarkEmptyStruct(SA) == [SA EXCEPT !.fields = <<>>]

\* The field loop of LoadDxilStructAnnotation from field i on.
RECURSIVE StructFieldsLoop(_, _, _)
StructFieldsLoop(ops, i, SA) ==
  IF i > Len(SA.fields) THEN Ok(SA)
  ELSE LET r == LoadDxilFieldAnnotation(ops[i + 1], SA.fields[i])
           SA1 == [SA EXCEPT !.fields[i] = r.rec]
       IN IF r.err THEN Fail(SA1) ELSE StructFieldsLoop(ops, i + 1, SA1)

LoadDxilStructAnnotation_NoMarker(MDO, SA) ==
  IF IsNull(MDO) \/ ~IsTuple(MDO) THEN Fail(SA)
  ELSE IF NumOperands(MDO) # Len(SA.fields) + 1 THEN Fail(SA)
  ELSE StructFieldsLoop(MDO.ops, 1, [SA EXCEPT !.cbufferSize = ConstMDToUint32(Op(MDO, 0))])
LoadDxilStructAnnotation(MDO, SA) ==
  IF IsNull(MDO) THEN Fail(SA)
  ELSE IF ~IsTuple(MDO) THEN Fail(SA)
  ELSE LET ST == StructElementTypes[SA.structType]
           SA1 == IF NumOperands(MDO) = 1 /\ Len(ST) = 1 /\ ST[1] = "i8"
                    THEN MarkEmptyStruct(SA) ELSE SA
       IN IF NumOperands(MDO) # Len(SA1.fields) + 1 THEN Fail(SA1)
          ELSE StructFieldsLoop(MDO.ops, 1,
                 [SA1 EXCEPT !.cbufferSize = ConstMDToUint32(Op(MDO, 0))])

RECURSIVE EmitParamAnnotations(_)
EmitParamAnnotations(params) ==
  IF params = <<>> THEN <<>>
  ELSE <<EmitDxilParamAnnotation(Head(params))>> \o EmitParamAnnotations(Tail(params))

EmitDxilFunctionAnnotation(FA) ==
  MDNode(<<EmitDxilParamAnnotation(FA.ret)>> \o EmitParamAnnotations(FA.params))

\* The parameter counts of the functions of the module.
FunctionParams == [main |-> 1, patchconst |-> 0]

\* DxilTypeSystem::AddFunctionAnnotation: one annotation per parameter of F.
\* F may be the null pointer; the count read through it is then whatever the
\* read gives, NullParams.
AddFunctionAnnotation(F, NullParams) ==
  [function |-> F, ret |-> FreshParamAnnotation,
   params |-> [i \in 1..(IF F = NullPtr THEN NullParams ELSE FunctionParams[F])
                 |-> FreshParamAnnotation]]

\* The parameter loop of LoadDxilFunctionAnnotation from parameter i on.
RECURSIVE FunctionParamsLoop(_, _, _)
FunctionParamsLoop(ops, i, FA) ==
  IF i > Len(FA.params) THEN Ok(FA)
  ELSE LET r == LoadDxilParamAnnotation(ops[i + 1], FA.params[i])
           FA1 == [FA EXCEPT !.params[i] = r.rec]
       IN IF r.err THEN Fail(FA1) ELSE FunctionParamsLoop(ops, i + 1, FA1)

\* The load with the arity test relaxed to "at least".
LoadDxilFunctionAnnotation_AtLeast(MDO, FA) ==
  IF IsNull(MDO) \/ ~IsTuple(MDO) THEN Fail(FA)
  ELSE IF NumOperands(MDO) < Len(FA.params) + 1 THEN Fail(FA)
  ELSE LET r == LoadDxilParamAnnotation(Op(MDO, 0), FA.ret)
           FA1 == [FA EXCEPT !.ret = r.rec]
       IN IF r.err THEN Fail(FA1) ELSE FunctionParamsLoop(MDO.ops, 1, FA1)

LoadDxilFunctionAnnotation(MDO, FA) ==
  IF IsNull(MDO) THEN Fail(FA)
  ELSE IF ~IsTuple(MDO) THEN Fail(FA)
  ELSE IF NumOperands(MDO) # Len(FA.params) + 1 THEN Fail(FA)
  ELSE LET r == LoadDxilParamAnnotation(Op(MDO, 0), FA.ret)
           FA1 == [FA EXCEPT !.ret = r.rec]
       IN IF r.err THEN Fail(FA1) ELSE FunctionParamsLoop(MDO.ops, 1, FA1)

(***************************************************************************)
(* The named metadata of the module.                                       *)
(***************************************************************************)
kDxilVersionMDName == "dx.version"
kDxilShaderModelMDName == "dx.shaderModel"
kDxilEntryPointsMDName == "dx.entryPoints"
kDxilResourcesMDName == "dx.resources"
kDxilTypeSystemMDName == "dx.typeAnnotations"
kDxilValidatorVersionMDName == "dx.valver"
kDxilRootSignatureMDName == "dx.rootSignature"
kDxilViewIdStateMDName == "dx.viewIdState"

NamedMDNames ==
  {kDxilVersionMDName, kDxilShaderModelMDName, kDxilEntryPointsMDName,
   kDxilResourcesMDName, kDxilTypeSystemMDName, kDxilValidatorVersionMDName,
   kDxilRootSignatureMDName, kDxilViewIdStateMDName}

\* A NamedMDNode: whether the module has it, and its operands.
\* The table IsKnownNamedMetaData searches.
DxilMDNames ==
  <<kDxilVersionMDName, kDxilShaderModelMDName, kDxilEntryPointsMDName,
    kDxilResourcesMDName, kDxilTypeSystemMDName, kDxilValidatorVersionMDName,
    kDxilViewIdStateMDName>>

\* The test taken over every name an emit function of the helper writes.
IsKnownNamedMetaData_AllEmitted(name) == name \in NamedMDNames

IsKnownNamedMetaData(name) ==
  \E i \in 1..Len(DxilMDNames) : name = DxilMDNames[i]

NoNamedMD == [present |-> FALSE, ops |-> <<>>]
EmptyModule == [n \in NamedMDNames |-> NoNamedMD]

getNamedMetadata(M, name) == M[name].present
eraseNamedMetadata(M, name) == [M EXCEPT ![name] = NoNamedMD]
getOrInsertNamedMetadata(M, name) ==
  IF M[name].present THEN M ELSE [M EXCEPT ![name] = [present |-> TRUE, ops |-> <<>>]]
addOperand(M, name, MD) == [M EXCEPT ![name].ops = Append(@, MD)]

\* The result of an emit on the module: the module as the call left it, and
\* whether it threw.
Done(M) == [err |-> FALSE, named |-> M]
Thrown(M) == [err |-> TRUE, named |-> M]

kDxilVersion ==
  [MajorIdx |-> 0, MinorIdx |-> 1, NumFields |-> 2]

VersionTuple(Major, Minor) == MDNode(<<Uint32ToConstMD(Major), Uint32ToConstMD(Minor)>>)

EmitDxilVersion_Unguarded(M, Major, Minor) ==
  Done(addOperand(getOrInsertNamedMetadata(M, kDxilVersionMDName),
                  kDxilVersionMDName, VersionTuple(Major, Minor)))
EmitDxilVersion(M, Major, Minor) ==
  IF getNamedMetadata(M, kDxilVersionMDName) THEN Thrown(M)
  ELSE Done(addOperand(getOrInsertNamedMetadata(M, kDxilVersionMDName),
                       kDxilVersionMDName, VersionTuple(Major, Minor)))

\* The version pair of operand 0 of entry name, which the caller found
\* present, read into V = [Major, Minor].
LoadVersionPair(M, name, V) ==
  IF Len(M[name].ops) # 1 THEN Fail(V)
  ELSE LET pVersionMD == M[name].ops[1]
       IN IF NumOperands(pVersionMD) # kDxilVersion.NumFields THEN Fail(V)
          ELSE Ok([Major |-> ConstMDToUint32(Op(pVersionMD, kDxilVersion.MajorIdx)),
                   Minor |-> ConstMDToUint32(Op(pVersionMD, kDxilVersion.MinorIdx))])

LoadDxilVersion(M, V) ==
  IF ~getNamedMetadata(M, kDxilVersionMDName) THEN Fail(V)
  ELSE LoadVersionPair(M, kDxilVersionMDName, V)

EmitValidatorVersion_NoErase(M, Major, Minor) ==
  Done(addOperand(getOrInsertNamedMetadata(M, kDxilValidatorVersionMDName),
                  kDxilValidatorVersionMDName, VersionTuple(Major, Minor)))
EmitValidatorVersion(M, Major, Minor) ==
  LET M1 == IF getNamedMetadata(M, kDxilValidatorVersionMDName)
              THEN eraseNamedMetadata(M, kDxilValidatorVersionMDName) ELSE M
  IN Done(addOperand(getOrInsertNamedMetadata(M1, kDxilValidatorVersionMDName),
                     kDxilValidatorVersionMDName, VersionTuple(Major, Minor)))

LoadValidatorVersion(M, V) ==
  IF ~getNamedMetadata(M, kDxilValidatorVersionMDName)
    THEN Ok([Major |-> 1, Minor |-> 0])
    ELSE LoadVersionPair(M, kDxilValidatorVersionMDName, V)

kDxilShaderModel ==
  [TypeIdx |-> 0, MajorIdx |-> 1, MinorIdx |-> 2, NumFields |-> 3]

\* The shader models ShaderModel::GetByName knows as valid for DXIL.
ShaderKindNames == {"vs", "ps"}
ValidShaderModels == [kindName : ShaderKindNames, Major : {6}, Minor : {0, 1}]

EmitDxilShaderModel(M, pSM) ==
  IF getNamedMetadata(M, kDxilShaderModelMDName) THEN Thrown(M)
  ELSE Done(addOperand(getOrInsertNamedMetadata(M, kDxilShaderModelMDName),
                       kDxilShaderModelMDName,
                       MDNode(<<MDString(pSM.kindName), Uint32ToConstMD(pSM.Major),
                                Uint32ToConstMD(pSM.Minor)>>)))

\* The shader model of a shader-model tuple.
LoadShaderModelTuple(pShaderModelMD, pSM) ==
  IF NumOperands(pShaderModelMD) # kDxilShaderModel.NumFields THEN Fail(pSM)
  ELSE IF ~IsMDString(Op(pShaderModelMD, kDxilShaderModel.TypeIdx)) THEN Fail(pSM)
  ELSE LET SM == [kindName |-> Op(pShaderModelMD, kDxilShaderModel.TypeIdx).s,
                  Major |-> ConstMDToUint32(Op(pShaderModelMD, kDxilShaderModel.MajorIdx)),
                  Minor |-> ConstMDToUint32(Op(pShaderModelMD, kDxilShaderModel.MinorIdx))]
       IN IF SM \in ValidShaderModels THEN Ok(SM)
          ELSE Fail([kindName |-> "invalid", Major |-> 0, Minor |-> 0])

LoadDxilShaderModel(M, pSM) ==
  IF ~getNamedMetadata(M, kDxilShaderModelMDName) THEN Fail(pSM)
  ELSE IF Len(M[kDxilShaderModelMDName].ops) # 1 THEN Fail(pSM)
  ELSE LoadShaderModelTuple(M[kDxilShaderModelMDName].ops[1], pSM)

RECURSIVE addOperands(_, _, _)
addOperands(M, name, MDs) ==
  IF MDs = <<>> THEN M ELSE addOperands(addOperand(M, name, Head(MDs)), name, Tail(MDs))

EmitDxilEntryPoints(M, MDEntries) ==
  IF getNamedMetadata(M, kDxilEntryPointsMDName) THEN Thrown(M)
  ELSE Done(addOperands(getOrInsertNamedMetadata(M, kDxilEntryPointsMDName),
                        kDxilEntryPointsMDName, MDEntries))

\* The named node itself is returned.
GetDxilEntryPoints(M) ==
  IF ~getNamedMetadata(M, kDxilEntryPointsMDName) THEN Fail(NoNamedMD)
  ELSE Ok(M[kDxilEntryPointsMDName])

\* R is [empty, bytes]: a RootSignatureHandle and its serialized form.
\* ConstantDataArray::get gives a ConstantAggregateZero when every element is
\* zero.
ConstantAggregateZero(elt, n) == [k |-> "zero", elt |-> elt, n |-> n]
ConstantDataArray(elt, vals) ==
  IF \A i \in 1..Len(vals) : vals[i] = 0 THEN ConstantAggregateZero(elt, Len(vals))
  ELSE [k |-> "data", elt |-> elt, vals |-> vals]
IsConstantMD(n) == n.k \in {"data", "zero", "int", "fp"}

EmitRootSignature(M, RootSig) ==
  IF RootSig.empty THEN Done(M)
  ELSE IF getNamedMetadata(M, kDxilRootSignatureMDName) THEN Thrown(M)
  ELSE Done(addOperand(getOrInsertNamedMetadata(M, kDxilRootSignatureMDName),
                       kDxilRootSignatureMDName,
                       MDNode(<<ConstantDataArray(8, RootSig.bytes)>>)))

\* Sig.Clear() and Sig.LoadSerialized(bytes): the handle holds the bytes.
LoadRootSignature(M, Sig) ==
  IF ~getNamedMetadata(M, kDxilRootSignatureMDName) THEN Ok(Sig)
  ELSE IF Len(M[kDxilRootSignatureMDName].ops) # 1 THEN Fail(Sig)
  ELSE LET pNode == M[kDxilRootSignatureMDName].ops[1]
       IN IF NumOperands(pNode) # 1 THEN Fail(Sig)
          ELSE LET MDO == Op(pNode, 0)
               IN IF ~IsConstantMD(MDO) THEN Fail(Sig)
                  ELSE IF MDO.k # "data" THEN Fail(Sig)
                  ELSE IF MDO.elt # 8 THEN Fail(Sig)
                  ELSE Ok([empty |-> FALSE, bytes |-> MDO.vals])

kDxilResource ==
  [SRVs |-> 0, UAVs |-> 1, CBuffers |-> 2, Samplers |-> 3]
kDxilNumResourceFields == 4

\* L is [srvs, uavs, cbuffers, samplers], each a tuple or Null.
ResourceTuple(L) == MDNode(<<L.srvs, L.uavs, L.cbuffers, L.samplers>>)

EmitDxilResourceTuple(M, L) ==
  IF getNamedMetadata(M, kDxilResourcesMDName) THEN Thrown(M)
  ELSE Done(addOperand(getOrInsertNamedMetadata(M, kDxilResourcesMDName),
                       kDxilResourcesMDName, ResourceTuple(L)))

CastToTupleOrNullFails(MDO) == ~IsNull(MDO) /\ ~IsTuple(MDO)

GetDxilResources(MDO, L) ==
  IF IsNull(MDO) THEN Fail(L)
  ELSE IF ~IsTuple(MDO) THEN Fail(L)
  ELSE IF NumOperands(MDO) # kDxilNumResourceFields THEN Fail(L)
  ELSE IF CastToTupleOrNullFails(Op(MDO, kDxilResource.SRVs)) THEN Fail(L)
  ELSE LET L1 == [L EXCEPT !.srvs = Op(MDO, kDxilResource.SRVs)]
       IN IF CastToTupleOrNullFails(Op(MDO, kDxilResource.UAVs)) THEN Fail(L1)
          ELSE LET L2 == [L1 EXCEPT !.uavs = Op(MDO, kDxilResource.UAVs)]
               IN IF CastToTupleOrNullFails(Op(MDO, kDxilResource.CBuffers)) THEN Fail(L2)
                  ELSE LET L3 == [L2 EXCEPT !.cbuffers = Op(MDO, kDxilResource.CBuffers)]
                       IN IF CastToTupleOrNullFails(Op(MDO, kDxilResource.Samplers))
                            THEN Fail(L3)
                            ELSE Ok([L3 EXCEPT !.samplers = Op(MDO, kDxilResource.Samplers)])

AnyNonZero(Data) == \E i \in 1..Len(Data) : Data[i] # 0

EmitDxilViewIdState_FirstWord(M, Data) ==
  IF Data = <<>> \/ Data[1] = 0 \/ getNamedMetadata(M, kDxilViewIdStateMDName) THEN Done(M)
  ELSE Done(addOperand(getOrInsertNamedMetadata(M, kDxilViewIdStateMDName),
                       kDxilViewIdStateMDName, MDNode(<<ConstantDataArray(32, Data)>>)))
EmitDxilViewIdState(M, Data) ==
  IF ~AnyNonZero(Data) THEN Done(M)
  ELSE IF getNamedMetadata(M, kDxilViewIdStateMDName) THEN Thrown(M)
  ELSE Done(addOperand(getOrInsertNamedMetadata(M, kDxilViewIdStateMDName),
                       kDxilViewIdStateMDName,
                       MDNode(<<ConstantDataArray(32, Data)>>)))

\* ViewIdState is the word vector of the DxilViewIdState; Deserialize stores
\* the words.
LoadDxilViewIdState(M, ViewIdState) ==
  IF ~getNamedMetadata(M, kDxilViewIdStateMDName) THEN Ok(ViewIdState)
  ELSE IF Len(M[kDxilViewIdStateMDName].ops) # 1 THEN Fail(ViewIdState)
  ELSE LET pNode == M[kDxilViewIdStateMDName].ops[1]
       IN IF NumOperands(pNode) # 1 THEN Fail(ViewIdState)
          ELSE LET MDO == Op(pNode, 0)
               IN IF ~IsConstantMD(MDO) THEN Fail(ViewIdState)
                  ELSE IF MDO.k = "zero" THEN Ok(ViewIdState)
                  ELSE IF MDO.k # "data" THEN Fail(ViewIdState)
                  ELSE IF MDO.elt # 32 THEN Fail(ViewIdState)
                  ELSE Ok(MDO.vals)

\* TS is [structs, funcs]: the struct- and function-annotation maps in the
\* order their iterators visit them.
RECURSIVE StructPairs(_)
StructPairs(structs) ==
  IF structs = <<>> THEN <<>>
  ELSE <<ValueAsMetadata(Head(structs).structType), EmitDxilStructAnnotation(Head(structs))>>
       \o StructPairs(Tail(structs))

RECURSIVE FuncPairs(_)
FuncPairs(funcs) ==
  IF funcs = <<>> THEN <<>>
  ELSE <<ValueAsMetadata(Head(funcs).function), EmitDxilFunctionAnnotation(Head(funcs))>>
       \o FuncPairs(Tail(funcs))

EmitDxilTypeSystem(M, TS) ==
  LET MDVals == <<Uint32ToConstMD(kDxilTypeSystem.StructTag)>> \o StructPairs(TS.structs)
      MDFuncVals == <<Uint32ToConstMD(kDxilTypeSystem.FunctionTag)>> \o FuncPairs(TS.funcs)
  IN IF Len(MDVals) > 1 /\ getNamedMetadata(M, kDxilTypeSystemMDName) THEN Thrown(M)
     ELSE LET M1 == IF Len(MDVals) > 1
                      THEN addOperand(getOrInsertNamedMetadata(M, kDxilTypeSystemMDName),
                                      kDxilTypeSystemMDName, MDNode(MDVals))
                      ELSE M
          IN IF Len(MDFuncVals) > 1
               THEN Done(addOperand(getOrInsertNamedMetadata(M1, kDxilTypeSystemMDName),
                                    kDxilTypeSystemMDName, MDNode(MDFuncVals)))
               ELSE Done(M1)

\* The pair loops of LoadDxilTypeSystemNode from operand j (1-based) on.  A
\* struct key must be a constant of a struct type.
RECURSIVE TypeSystemStructLoop(_, _, _)
TypeSystemStructLoop(ops, j, TS) ==
  IF j > Len(ops) THEN Ok(TS)
  ELSE IF IsNull(ops[j]) \/ ~IsValueMD(ops[j]) THEN Fail(TS)
  ELSE IF ops[j].sym \notin DOMAIN StructElementTypes THEN Fail(TS)
  ELSE LET r == LoadDxilStructAnnotation(ops[j + 1], AddStructAnnotation(ops[j].sym))
           TS1 == [TS EXCEPT !.structs = Append(@, r.rec)]
       IN IF r.err THEN Fail(TS1) ELSE TypeSystemStructLoop(ops, j + 2, TS1)

\* dyn_cast<Function> gives the null pointer for a value that is not a
\* function, and the annotation is added for it.
RECURSIVE TypeSystemFunctionLoop(_, _, _, _)
TypeSystemFunctionLoop(ops, j, TS, NullParams) ==
  IF j > Len(ops) THEN Ok(TS)
  ELSE IF IsNull(ops[j]) \/ ~IsValueMD(ops[j]) THEN Fail(TS)
  ELSE LET F == IF IsFunction(ops[j].sym) THEN ops[j].sym ELSE NullPtr
           r == LoadDxilFunctionAnnotation(ops[j + 1], AddFunctionAnnotation(F, NullParams))
           TS1 == [TS EXCEPT !.funcs = Append(@, r.rec)]
       IN IF r.err THEN Fail(TS1) ELSE TypeSystemFunctionLoop(ops, j + 2, TS1, NullParams)

\* The dispatch with every tag but the struct tag taken for the function tag.
LoadDxilTypeSystemNode_NoTagCheck(MDT, TS, NullParams) ==
  LET Tag == ConstMDToUint32(Op(MDT, 0))
  IN IF Tag = kDxilTypeSystem.StructTag
       THEN IF NumOperands(MDT) % 2 # 1 THEN Fail(TS)
            ELSE TypeSystemStructLoop(MDT.ops, 2, TS)
     ELSE IF NumOperands(MDT) % 2 # 1 THEN Fail(TS)
     ELSE TypeSystemFunctionLoop(MDT.ops, 2, TS, NullParams)

LoadDxilTypeSystemNode(MDT, TS, NullParams) ==
  LET Tag == ConstMDToUint32(Op(MDT, 0))
  IN IF Tag = kDxilTypeSystem.StructTag
       THEN IF NumOperands(MDT) % 2 # 1 THEN Fail(TS)
            ELSE TypeSystemStructLoop(MDT.ops, 2, TS)
     ELSE IF Tag # kDxilTypeSystem.FunctionTag THEN Fail(TS)
     ELSE IF NumOperands(MDT) % 2 # 1 THEN Fail(TS)
     ELSE TypeSystemFunctionLoop(MDT.ops, 2, TS, NullParams)

LoadDxilTypeSystem(M, TS, NullParams) ==
  IF ~getNamedMetadata(M, kDxilTypeSystemMDName) THEN Ok(TS)
  ELSE IF Len(M[kDxilTypeSystemMDName].ops) > 2 THEN Fail(TS)
  ELSE LET ops == M[kDxilTypeSystemMDName].ops
           \* the loop over the at most two operands
           r1 == IF ~IsTuple(ops[1]) THEN Fail(TS)
                 ELSE LoadDxilTypeSystemNode(ops[1], TS, NullParams)
       IN IF ops = <<>> THEN Ok(TS)
          ELSE IF Len(ops) = 1 \/ r1.err THEN r1
          ELSE IF ~IsTuple(ops[2]) THEN Fail(r1.rec)
          ELSE LoadDxilTypeSystemNode(ops[2], r1.rec, NullParams)

(***************************************************************************)
(* The dx.precise bridge.  An instruction is [fp, call, unsafe, marker]:   *)
(* whether it is an FPMathOperator, whether it is a CallInst, its          *)
(* unsafe-algebra fast-math flag and whether dx.precise metadata is        *)
(* attached.  Only an FPMathOperator carries fast-math flags.              *)
(***************************************************************************)
InstStates ==
  {i \in [fp : BOOLEAN, call : BOOLEAN, unsafe : BOOLEAN, marker : BOOLEAN] :
     ~i.fp => ~i.unsafe}

EmitPreciseInst_KeepFlag(I) ==
  IF I.fp /\ I.call THEN [I EXCEPT !.marker = ~I.unsafe] ELSE I
EmitPreciseInst(I) ==
  IF I.fp /\ I.call
    THEN IF ~I.unsafe THEN [I EXCEPT !.marker = TRUE]
         ELSE [I EXCEPT !.unsafe = FALSE, !.marker = FALSE]
    ELSE I

\* The pass stopping after the first instruction.
EmitDxilPreciseMD_FirstOnly(Is) ==
  [i \in DOMAIN Is |-> IF i = 1 THEN EmitPreciseInst(Is[i]) ELSE Is[i]]
EmitDxilPreciseMD(Is) == [i \in DOMAIN Is |-> EmitPreciseInst(Is[i])]

LoadPreciseInst_KeepMarker(I) ==
  IF I.fp /\ I.call /\ ~I.marker THEN [I EXCEPT !.unsafe = TRUE] ELSE I
LoadPreciseInst_NoRestore(I) ==
  IF I.fp /\ I.call THEN [I EXCEPT !.marker = FALSE] ELSE I
LoadPreciseInst(I) ==
  IF I.fp /\ I.call
    THEN IF ~I.marker THEN [I EXCEPT !.unsafe = TRUE]
         ELSE [I EXCEPT !.marker = FALSE]
    ELSE I

\* The pass stopping after the first instruction.
LoadDxilPreciseMD_FirstOnly(Is, FromBitCode) ==
  IF ~FromBitCode THEN Is
  ELSE [i \in DOMAIN Is |-> IF i = 1 THEN LoadPreciseInst(Is[i]) ELSE Is[i]]
LoadDxilPreciseMD(Is, FromBitCode) ==
  IF ~FromBitCode THEN Is ELSE [i \in DOMAIN Is |-> LoadPreciseInst(Is[i])]

(***************************************************************************)
(* Specification SpecPrecise: the two dx.precise passes run in any order   *)
(* on a module of MaxInsts instructions.  last is the sequence of passes   *)
(* run so far and given[p] the instructions as they were before pass p.    *)
(***************************************************************************)
InitPrecise ==
  /\ insts \in [1..MaxInsts -> InstStates]
  /\ fromBitCode \in BOOLEAN
  /\ given = <<>>
  /\ last = <<>>
  /\ named = EmptyModule
  /\ kind = "precise"
  /\ node = Null
  /\ out = Null
  /\ err = FALSE
  /\ calls = 0

PassEmitDxilPreciseMD ==
  /\ Len(last) < MaxPasses
  /\ insts' = EmitDxilPreciseMD(insts)
  /\ given' = Append(given, insts)
  /\ last' = Append(last, "emit")
  /\ UNCHANGED <<named, fromBitCode, kind, node, out, err, calls>>

PassLoadDxilPreciseMD ==
  /\ Len(last) < MaxPasses
  /\ insts' = LoadDxilPreciseMD(insts, fromBitCode)
  /\ given' = Append(given, insts)
  /\ last' = Append(last, "load")
  /\ UNCHANGED <<named, fromBitCode, kind, node, out, err, calls>>

NextPrecise == PassEmitDxilPreciseMD \/ PassLoadDxilPreciseMD

SpecPrecise == InitPrecise /\ [][NextPrecise]_vars

\* The passes run so far end with the passes of seq.
EndsWith(seq) ==
  /\ Len(last) >= Len(seq)
  /\ SubSeq(last, Len(last) - Len(seq) + 1, Len(last)) = seq

\* The instructions as they were before the n-th pass from the end.
Before(n) == given[Len(given) - n + 1]

IsFPCall(I) == I.fp /\ I.call

\* C6: for every floating-point call instruction, one emit pass followed by
\* one load pass on a module read from bitcode restores the unsafe-algebra
\* flag to its value before the emit pass and leaves no precise marker; and
\* after the emit pass alone an instruction that had the flag set and no
\* marker has the flag clear and no marker.
C6_EmitThenLoadRestoresFlag ==
  /\ (EndsWith(<<"emit", "load">>) /\ fromBitCode) =>
       \A i \in DOMAIN insts :
         IsFPCall(insts[i]) =>
           /\ insts[i].unsafe = Before(2)[i].unsafe
           /\ ~insts[i].marker
  /\ EndsWith(<<"emit">>) =>
       \A i \in DOMAIN insts :
         (IsFPCall(insts[i]) /\ Before(1)[i].unsafe /\ ~Before(1)[i].marker) =>
           (~insts[i].unsafe /\ ~insts[i].marker)

C6_Witness ==
  /\ EndsWith(<<"emit", "load">>)
  /\ fromBitCode
  /\ \E i \in DOMAIN insts :
       IsFPCall(insts[i]) /\ Before(2)[i].unsafe /\ insts[i].unsafe /\ ~Before(1)[i].unsafe
  /\ \E i \in DOMAIN insts :
       IsFPCall(insts[i]) /\ ~Before(2)[i].unsafe /\ Before(1)[i].marker /\ ~insts[i].marker

VersionNums == {0, 1}

TheEntryPoint ==
  EmitDxilEntryPointTuple([func |-> "main", name |-> "main", signatures |-> Null,
                           resources |-> Null, properties |-> Null])

SomeSRV ==
  [FreshResource EXCEPT !.class = ClassSRV, !.kind = KindRawBuffer, !.id = 0,
                        !.globalSymbol = "g_buf", !.globalName = "buf", !.rangeSize = 1]

\* The four lists of a module without resources, and those of a module with
\* some.  EmitDxilResourceTuple asserts that it is not handed the former; the
\* assertion compiles to nothing in a release build.
NoResources == [srvs |-> Null, uavs |-> Null, cbuffers |-> Null, samplers |-> Null]
ResourceLists ==
  [srvs : {Null, MDNode(<<EmitDxilSRV(SomeSRV)>>)}, uavs : {Null},
   cbuffers : {Null, MDNode(<<>>)}, samplers : {Null}]
  \ {NoResources}

RootSignatures ==
  {[empty |-> TRUE, bytes |-> <<>>], [empty |-> FALSE, bytes |-> <<1, 2>>],
   [empty |-> FALSE, bytes |-> <<3>>]}

ViewIdData == {<<>>, <<0, 0>>, <<0, 5>>, <<7>>}

SomeStruct ==
  [structType |-> "S0", cbufferSize |-> 16,
   fields |-> <<[FreshFieldAnnotation EXCEPT !.fieldName = "a", !.cbufferOffset = 0]>>]
SomeFunction ==
  [function |-> "main", ret |-> FreshParamAnnotation,
   params |-> <<[FreshParamAnnotation EXCEPT !.paramInputQual = 1, !.semIdx = <<0>>]>>]
TypeSystems == [structs : {<<>>, <<SomeStruct>>}, funcs : {<<>>, <<SomeFunction>>}]

InitRegistry ==
  /\ named = EmptyModule
  /\ given = EmptyModule
  /\ out = Null
  /\ err = FALSE
  /\ last = "init"
  /\ calls = 0
  /\ insts = <<>>
  /\ fromBitCode = FALSE
  /\ kind = "registry"
  /\ node = Null

\* One emit call: r is its result, args its arguments.
RegistryEmit(name, r, args) ==
  /\ calls < MaxCalls
  /\ named' = r.named
  /\ err' = r.err
  /\ given' = named
  /\ out' = args
  /\ last' = name
  /\ calls' = calls + 1
  /\ UNCHANGED <<insts, fromBitCode, kind, node>>

CallEmitDxilVersion ==
  \E Major \in VersionNums, Minor \in VersionNums :
    RegistryEmit("EmitDxilVersion", EmitDxilVersion(named, Major, Minor),
                 [Major |-> Major, Minor |-> Minor])

CallEmitValidatorVersion ==
  \E Major \in VersionNums, Minor \in VersionNums :
    RegistryEmit("EmitValidatorVersion", EmitValidatorVersion(named, Major, Minor),
                 [Major |-> Major, Minor |-> Minor])

CallEmitDxilShaderModel ==
  \E pSM \in ValidShaderModels :
    RegistryEmit("EmitDxilShaderModel", EmitDxilShaderModel(named, pSM), pSM)

CallEmitDxilEntryPoints ==
  RegistryEmit("EmitDxilEntryPoints", EmitDxilEntryPoints(named, <<TheEntryPoint>>),
               [entries |-> <<TheEntryPoint>>])

CallEmitDxilResourceTuple ==
  \E L \in ResourceLists \cup {NoResources} :
    RegistryEmit("EmitDxilResourceTuple", EmitDxilResourceTuple(named, L), L)

CallEmitRootSignature ==
  \E RootSig \in RootSignatures :
    RegistryEmit("EmitRootSignature", EmitRootSignature(named, RootSig), RootSig)

CallEmitDxilViewIdState ==
  \E Data \in ViewIdData :
    RegistryEmit("EmitDxilViewIdState", EmitDxilViewIdState(named, Data), [data |-> Data])

CallEmitDxilTypeSystem ==
  \E TS \in TypeSystems :
    RegistryEmit("EmitDxilTypeSystem", EmitDxilTypeSystem(named, TS), TS)

CallLoadValidatorVersion ==
  /\ calls < MaxCalls
  /\ LET r == LoadValidatorVersion(named, [Major |-> 0, Minor |-> 0])
     IN out' = r.rec /\ err' = r.err
  /\ given' = named
  /\ last' = "LoadValidatorVersion"
  /\ calls' = calls + 1
  /\ UNCHANGED <<named, insts, fromBitCode, kind, node>>

\* Names of named metadata that are not entries of the helper: instruction
\* metadata kinds, the prefix of the type helper variables, a name of LLVM.
OtherMDNames ==
  {"dx.controlflow.hints", "dx.precise", "dx.hl.resource.attribute", "dx.typevar.",
   "llvm.ident", "dx.Version", ""}

\* IsKnownNamedMetaData is asked about a named node, of the module or not.
CallIsKnownNamedMetaData ==
  /\ calls < MaxCalls
  /\ \E name \in NamedMDNames \cup OtherMDNames :
       out' = [name |-> name, known |-> IsKnownNamedMetaData(name)]
  /\ given' = named
  /\ err' = FALSE
  /\ last' = "IsKnownNamedMetaData"
  /\ calls' = calls + 1
  /\ UNCHANGED <<named, insts, fromBitCode, kind, node>>

NextRegistry ==
  \/ CallEmitDxilVersion
  \/ CallEmitValidatorVersion
  \/ CallEmitDxilShaderModel
  \/ CallEmitDxilEntryPoints
  \/ CallEmitDxilResourceTuple
  \/ CallEmitRootSignature
  \/ CallEmitDxilViewIdState
  \/ CallEmitDxilTypeSystem
  \/ CallLoadValidatorVersion
  \/ CallIsKnownNamedMetaData

SpecRegistry == InitRegistry /\ [][NextRegistry]_vars

\* The entry each guarded emit function writes.
GuardedEntry ==
  [EmitDxilVersion |-> kDxilVersionMDName,
   EmitDxilShaderModel |-> kDxilShaderModelMDName,
   EmitDxilEntryPoints |-> kDxilEntryPointsMDName,
   EmitDxilResourceTuple |-> kDxilResourcesMDName,
   EmitRootSignature |-> kDxilRootSignatureMDName,
   EmitDxilViewIdState |-> kDxilViewIdStateMDName]

\* The last call had something to emit (a non-empty root signature, view-id
\* data that is not all zero).
HadSomethingToEmit ==
  CASE last = "EmitRootSignature" -> ~out.empty
    [] last = "EmitDxilViewIdState" -> AnyNonZero(out.data)
    [] OTHER -> TRUE

\* C3: a call of EmitDxilVersion, EmitDxilShaderModel, EmitDxilEntryPoints,
\* EmitDxilResourceTuple, EmitRootSignature (non-empty) or EmitDxilViewIdState
\* (non-zero) whose entry already exists fails and leaves the module as it
\* was; no call changes an existing one of these entries, so each holds the
\* operands of its first successful emission.
C3_DuplicateEmitFails ==
  /\ \A f \in DOMAIN GuardedEntry :
       given[GuardedEntry[f]].present => named[GuardedEntry[f]] = given[GuardedEntry[f]]
  /\ (/\ last \in DOMAIN GuardedEntry
      /\ HadSomethingToEmit
      /\ given[GuardedEntry[last]].present) => (err /\ named = given)
  /\ \A f \in DOMAIN GuardedEntry :
       named[GuardedEntry[f]].present => Len(named[GuardedEntry[f]].ops) = 1

C3_Witness ==
  /\ last = "EmitDxilVersion"
  /\ given[kDxilVersionMDName].present
  /\ err
  /\ out # [Major |-> ConstMDToUint32(Op(named[kDxilVersionMDName].ops[1], 0)),
            Minor |-> ConstMDToUint32(Op(named[kDxilVersionMDName].ops[1], 1))]

\* C4: EmitValidatorVersion never fails; after it the dx.valver entry has
\* exactly one operand, the 2-field tuple of the call's (major, minor), which
\* LoadValidatorVersion returns; no other call touches the entry.
C4_ValidatorVersionReplaced ==
  /\ last = "EmitValidatorVersion" =>
       /\ ~err
       /\ named[kDxilValidatorVersionMDName].present
       /\ named[kDxilValidatorVersionMDName].ops = <<VersionTuple(out.Major, out.Minor)>>
       /\ LoadValidatorVersion(named, [Major |-> 7, Minor |-> 7]) = Ok(out)
  /\ last # "EmitValidatorVersion" =>
       named[kDxilValidatorVersionMDName] = given[kDxilValidatorVersionMDName]
  /\ named[kDxilValidatorVersionMDName].present =>
       /\ Len(named[kDxilValidatorVersionMDName].ops) = 1
       /\ NumOperands(named[kDxilValidatorVersionMDName].ops[1]) = 2

C4_Witness ==
  /\ last = "EmitValidatorVersion"
  /\ given[kDxilValidatorVersionMDName].present
  /\ given[kDxilValidatorVersionMDName] # named[kDxilValidatorVersionMDName]
  /\ ~err

\* The operands of the type-annotations entry that carry tag.
TaggedOperands(tag) ==
  {i \in 1..Len(named[kDxilTypeSystemMDName].ops) :
     ConstMDToUint32(Op(named[kDxilTypeSystemMDName].ops[i], 0)) = tag}

\* C5 as stated: after any sequence of EmitDxilTypeSystem calls the
\* type-annotations entry is absent or holds 1 or 2 operands, at most one
\* struct-tagged and at most one function-tagged, the struct-tagged first;
\* and a call that would add a tuple to an entry already emitted fails
\* instead of appending.
C5_TypeAnnotationsShape ==
  /\ named[kDxilTypeSystemMDName].present =>
       /\ Len(named[kDxilTypeSystemMDName].ops) \in {1, 2}
       /\ Cardinality(TaggedOperands(kDxilTypeSystem.StructTag)) <= 1
       /\ Cardinality(TaggedOperands(kDxilTypeSystem.FunctionTag)) <= 1
       /\ TaggedOperands(kDxilTypeSystem.StructTag) \subseteq {1}
  /\ (/\ last = "EmitDxilTypeSystem"
      /\ given[kDxilTypeSystemMDName].present
      /\ (out.structs # <<>> \/ out.funcs # <<>>)) => (err /\ named = given)

\* A call with function annotations only, on a module whose entry exists,
\* succeeded and left two function-tagged tuples.
C5_Witness ==
  /\ last = "EmitDxilTypeSystem"
  /\ given[kDxilTypeSystemMDName].present
  /\ out.structs = <<>>
  /\ ~err
  /\ Len(named[kDxilTypeSystemMDName].ops) = Len(given[kDxilTypeSystemMDName].ops) + 1
  /\ Cardinality(TaggedOperands(kDxilTypeSystem.FunctionTag)) >= 2

(***************************************************************************)
(* Specification SpecRec: one record of one kind is emitted, the emitted   *)
(* tuple is optionally damaged (one operand dropped, one operand added,    *)
(* its tag-value list made odd or given an unknown tag, or its function    *)
(* reference pointed at a global variable, one element of a signature list *)
(* made malformed), and the tuple is loaded into a                         *)
(* fresh record; or a load-properties routine is called on the record      *)
(* emitted.  given is the record emitted, node the tuple, out the record   *)
(* loaded into, err whether the load threw.                                *)
(***************************************************************************)
RecKinds ==
  {"Version", "ShaderModel", "EntryPoint", "Signatures", "SigElem", "SRV", "UAV",
   "CBuffer", "Sampler", "GSState", "DSState", "HSState", "ParamAnnotation",
   "FieldAnnotation", "Matrix", "Resources", "StructAnnotation", "TypeSystemFunctions",
   "SignatureList", "FunctionAnnotation"}

\* The kinds whose tuple has a declared arity, and those with a tag-value list.
\* The arity of a struct annotation follows the struct loaded into, and the
\* function-tagged tuple of the type system is a list of pairs, and a signature
\* list has one operand per element.
\* The arity of a function annotation follows the function loaded into.
AnnotationKinds == {"StructAnnotation", "FunctionAnnotation"}
FixedArityKinds ==
  RecKinds \ ({"FieldAnnotation", "TypeSystemFunctions", "SignatureList"} \cup AnnotationKinds)
ListKinds == {"FieldAnnotation", "SRV", "UAV", "CBuffer", "Sampler", "SigElem"}

RECURSIVE SeqsUpTo(_, _)
SeqsUpTo(S, n) ==
  IF n = 0 THEN {<<>>}
  ELSE LET Shorter == SeqsUpTo(S, n - 1)
       IN Shorter \cup {Append(q, x) : q \in {r \in Shorter : Len(r) = n - 1}, x \in S}

IndexVectors == SeqsUpTo({0, 1}, MaxIdxLen)

\* Signature elements: the 8-bit fields hold values of their width (at most 4
\* columns, start column -1 when unallocated).
SigElems ==
  [id : {0, 1}, name : {"POSITION"}, compType : {CompTypeF32}, semKind : {0, 3},
   semIdx : IndexVectors, interp : {0, 2}, rows : {1}, cols : {1, 4},
   startRow : {-1, 0}, startCol : {-1, 0, 3}, outputStream : {0, 1},
   dynIdxCompMask : {0, 5}]

SomeSE ==
  [FreshSE EXCEPT !.id = 0, !.name = "POSITION", !.compType = CompTypeF32, !.semIdx = <<0>>,
                  !.rows = 1, !.cols = 4, !.startRow = 0, !.startCol = 0]
OtherSE == [SomeSE EXCEPT !.id = 1, !.name = "COLOR", !.startRow = 1, !.dynIdxCompMask = 5]

SignatureGroups ==
  [input : {<<>>, <<SomeSE>>}, output : {<<>>, <<SomeSE, OtherSE>>}, pc : {<<>>, <<OtherSE>>}]

ShapeKinds == {KindTexture2D, KindTypedBuffer, KindRawBuffer, KindStructuredBuffer}
Strides == {0, 1, 4, 16}

SRVs ==
  {[FreshResource EXCEPT !.class = ClassSRV, !.kind = K, !.id = i, !.globalSymbol = "g_tex",
                         !.globalName = "tex", !.lowerBound = lb, !.rangeSize = 1,
                         !.sampleCount = sc, !.elementStride = st, !.compType = ct] :
     K \in ShapeKinds, i \in {0, 1}, lb \in {0, 3}, sc \in {0, 4}, st \in Strides,
     ct \in {CompTypeInvalid, CompTypeF32}}

UAVs ==
  {[FreshResource EXCEPT !.class = ClassUAV, !.kind = K, !.id = 0, !.globalSymbol = "g_buf",
                         !.globalName = "buf", !.spaceID = 1, !.lowerBound = lb,
                         !.rangeSize = 2, !.elementStride = st, !.compType = ct,
                         !.globallyCoherent = gc, !.hasCounter = hc, !.rov = rov] :
     K \in ShapeKinds, lb \in {0, 3}, st \in Strides,
     ct \in {CompTypeInvalid, CompTypeF32}, gc \in BOOLEAN, hc \in BOOLEAN, rov \in BOOLEAN}

CBuffers ==
  {[FreshCBuffer EXCEPT !.kind = K, !.id = i, !.globalSymbol = "g_buf", !.globalName = "cb",
                        !.lowerBound = lb, !.rangeSize = 1, !.size = sz] :
     K \in {KindCBuffer, KindTBuffer}, i \in {0, 1}, lb \in {0, 3}, sz \in {0, 16}}

Samplers ==
  {[FreshSampler EXCEPT !.id = i, !.globalSymbol = "g_tex", !.globalName = "samp",
                        !.lowerBound = lb, !.rangeSize = 1, !.samplerKind = sk] :
     i \in {0, 1}, lb \in {0, 3}, sk \in {0, 1}}

EntryPointRecs ==
  [func : {"main", NullPtr}, name : {"main"},
   signatures : {Null, EmitDxilSignatures([input |-> <<SomeSE>>, output |-> <<>>, pc |-> <<>>])},
   resources : {Null, ResourceTuple([srvs |-> MDNode(<<EmitDxilSRV(SomeSRV)>>), uavs |-> Null,
                                     cbuffers |-> Null, samplers |-> Null])},
   properties : {Null}]

GSStates ==
  [primitive : {1, 3}, maxVertexCount : {3}, activeStreamMask : {1, 3}, topology : {5},
   instanceCount : {1, 2}]
DSStates == [domain : {2, 3}, inputControlPointCount : {3, 4}]
HSStates ==
  [patchConstantFunction : {"patchconst"}, inputControlPointCount : {3},
   outputControlPointCount : {3, 4}, domain : {2}, partitioning : {1, 3},
   outputPrimitive : {3}, maxTessFactor : {64}]

FieldAnnotations ==
  [fieldName : {"", "a"}, precise : BOOLEAN,
   matrix : {NoMatrix, [rows |-> 4, cols |-> 3, orientation |-> 1]},
   cbufferOffset : {NoOffset, 16}, semanticString : {"", "SV_Position"},
   interp : {0, 2}, compType : {CompTypeInvalid, CompTypeF32}]

ParamAnnotations ==
  {Merge(FA, [paramInputQual |-> q, semIdx |-> v]) :
     FA \in {F \in FieldAnnotations : F.cbufferOffset = NoOffset /\ ~F.precise},
     q \in {0, 1}, v \in {<<>>, <<1, 0>>}}

\* Struct annotations: one field annotation per element, or none for the
\* struct that was marked empty.
StructAnnotations ==
  {[structType |-> t, cbufferSize |-> c, fields |-> f] :
     t \in DOMAIN StructElementTypes, c \in {0, 16},
     f \in {<<[FreshFieldAnnotation EXCEPT !.fieldName = "a", !.cbufferOffset = 0]>>,
            <<[FreshFieldAnnotation EXCEPT !.fieldName = "b", !.compType = CompTypeF32]>>}}
  \cup {[structType |-> "SEmpty", cbufferSize |-> c, fields |-> <<>>] : c \in {0, 16}}

\* The function-annotation maps of a type system that has one.
OtherFunction == [function |-> "patchconst", ret |-> FreshParamAnnotation, params |-> <<>>]
FunctionAnnotationMaps ==
  {<<SomeFunction>>, <<OtherFunction>>, <<SomeFunction, OtherFunction>>,
   <<OtherFunction, SomeFunction>>}

\* The annotations of the functions of the module, with their return-type
\* and parameter annotations.
FunctionAnnotations ==
  {[function |-> "main", ret |-> r, params |-> <<q>>] :
     r \in {FreshParamAnnotation, SomeFunction.params[1]}, q \in ParamAnnotations}
  \cup {OtherFunction}

\* The element lists of a signature that has elements.
SignatureLists == SeqsUpTo({SomeSE, OtherSE}, MaxElems) \ {<<>>}

Models(K) ==
  CASE K = "Version" -> [Major : VersionNums, Minor : VersionNums]
    [] K = "ShaderModel" -> ValidShaderModels
    [] K = "EntryPoint" -> EntryPointRecs
    [] K = "Signatures" -> SignatureGroups
    [] K = "SigElem" -> SigElems
    [] K = "SRV" -> SRVs
    [] K = "UAV" -> UAVs
    [] K = "CBuffer" -> CBuffers
    [] K = "Sampler" -> Samplers
    [] K = "GSState" -> GSStates
    [] K = "DSState" -> DSStates
    [] K = "HSState" -> HSStates
    [] K = "ParamAnnotation" -> ParamAnnotations
    [] K = "FieldAnnotation" -> FieldAnnotations
    [] K = "Matrix" -> {F \in FieldAnnotations : HasMatrixAnnotation(F)}
    [] K = "Resources" -> ResourceLists
    [] K = "StructAnnotation" -> StructAnnotations
    [] K = "TypeSystemFunctions" -> FunctionAnnotationMaps
    [] K = "SignatureList" -> SignatureLists
    [] K = "FunctionAnnotation" -> FunctionAnnotations

\* The record a load of kind K is handed (for a struct annotation the one
\* AddStructAnnotation makes for the struct type of the record emitted).
FreshRec(K) ==
  CASE K = "Version" -> [Major |-> 0, Minor |-> 0]
    [] K = "ShaderModel" -> [kindName |-> "invalid", Major |-> 0, Minor |-> 0]
    [] K = "EntryPoint" -> [func |-> NullPtr, name |-> "", signatures |-> Null,
                            resources |-> Null, properties |-> Null]
    [] K = "Signatures" -> [input |-> <<>>, output |-> <<>>, pc |-> <<>>]
    [] K = "SigElem" -> FreshSE
    [] K \in {"SRV", "UAV"} -> FreshResource
    [] K = "CBuffer" -> FreshCBuffer
    [] K = "Sampler" -> FreshSampler
    [] K = "GSState" -> [primitive |-> 0, maxVertexCount |-> 0, activeStreamMask |-> 0,
                         topology |-> 0, instanceCount |-> 0]
    [] K = "DSState" -> [domain |-> 0, inputControlPointCount |-> 0]
    [] K = "HSState" -> [patchConstantFunction |-> NullPtr, inputControlPointCount |-> 0,
                         outputControlPointCount |-> 0, domain |-> 0, partitioning |-> 0,
                         outputPrimitive |-> 0, maxTessFactor |-> 0]
    [] K = "ParamAnnotation" -> FreshParamAnnotation
    [] K \in {"FieldAnnotation", "Matrix"} -> FreshFieldAnnotation
    [] K = "Resources" -> [srvs |-> Null, uavs |-> Null, cbuffers |-> Null, samplers |-> Null]
    [] K = "StructAnnotation" -> AddStructAnnotation(given.structType)
    [] K = "TypeSystemFunctions" -> [structs |-> <<>>, funcs |-> <<>>]
    [] K = "SignatureList" -> <<>>
    [] K = "FunctionAnnotation" -> AddFunctionAnnotation(given.function, 0)

\* A module whose entry name holds the single operand n.
ModuleWith(name, n) == [EmptyModule EXCEPT ![name] = [present |-> TRUE, ops |-> <<n>>]]

EmitRec(K, R) ==
  CASE K = "Version" ->
         EmitDxilVersion(EmptyModule, R.Major, R.Minor).named[kDxilVersionMDName].ops[1]
    [] K = "ShaderModel" ->
         EmitDxilShaderModel(EmptyModule, R).named[kDxilShaderModelMDName].ops[1]
    [] K = "EntryPoint" -> EmitDxilEntryPointTuple(R)
    [] K = "Signatures" -> EmitDxilSignatures(R)
    [] K = "SigElem" -> EmitSignatureElement(R)
    [] K = "SRV" -> EmitDxilSRV(R)
    [] K = "UAV" -> EmitDxilUAV(R)
    [] K = "CBuffer" -> EmitDxilCBuffer(R)
    [] K = "Sampler" -> EmitDxilSampler(R)
    [] K = "GSState" -> EmitDxilGSState(R)
    [] K = "DSState" -> EmitDxilDSState(R)
    [] K = "HSState" -> EmitDxilHSState(R)
    [] K = "ParamAnnotation" -> EmitDxilParamAnnotation(R)
    [] K \in {"FieldAnnotation", "Matrix"} -> EmitDxilFieldAnnotation(R)
    [] K = "Resources" -> ResourceTuple(R)
    [] K = "StructAnnotation" -> EmitDxilStructAnnotation(R)
    [] K = "TypeSystemFunctions" ->
         EmitDxilTypeSystem(EmptyModule, [structs |-> <<>>, funcs |-> R])
           .named[kDxilTypeSystemMDName].ops[1]
    [] K = "SignatureList" -> EmitSignatureMetadata(R)
    [] K = "FunctionAnnotation" -> EmitDxilFunctionAnnotation(R)

\* NullParams is what AddFunctionAnnotation reads through a null function.
LoadRec(K, n, R, NullParams) ==
  CASE K = "Version" -> LoadDxilVersion(ModuleWith(kDxilVersionMDName, n), R)
    [] K = "ShaderModel" -> LoadDxilShaderModel(ModuleWith(kDxilShaderModelMDName, n), R)
    [] K = "EntryPoint" -> GetDxilEntryPoint(n, R)
    [] K = "Signatures" -> LoadDxilSignatures(n, R)
    [] K = "SigElem" -> LoadSignatureElement(n, R)
    [] K = "SRV" -> LoadDxilSRV(n, R)
    [] K = "UAV" -> LoadDxilUAV(n, R)
    [] K = "CBuffer" -> LoadDxilCBuffer(n, R)
    [] K = "Sampler" -> LoadDxilSampler(n, R)
    [] K = "GSState" -> LoadDxilGSState(n, R)
    [] K = "DSState" -> LoadDxilDSState(n, R)
    [] K = "HSState" -> LoadDxilHSState(n, R)
    [] K = "ParamAnnotation" -> LoadDxilParamAnnotation(n, R)
    [] K \in {"FieldAnnotation", "Matrix"} -> LoadDxilFieldAnnotation(n, R)
    [] K = "Resources" -> GetDxilResources(n, R)
    [] K = "StructAnnotation" -> LoadDxilStructAnnotation(n, R)
    [] K = "TypeSystemFunctions" -> LoadDxilTypeSystemNode(n, R, NullParams)
    [] K = "SignatureList" -> LoadSignatureMetadata(n, R)
    [] K = "FunctionAnnotation" -> LoadDxilFunctionAnnotation(n, R)

\* The operand of a field-annotation tuple that holds the matrix tuple.
MatrixSlot(n) ==
  1 + CHOOSE i \in 1..Len(n.ops) :
        i % 2 = 1 /\ ConstMDToUint32(n.ops[i]) = kDxilFieldAnnotation.MatrixTag

\* The tuple whose arity kind K declares: the matrix tuple inside a field
\* annotation, the emitted tuple itself otherwise.
ArityTuple(K, n) == IF K = "Matrix" THEN n.ops[MatrixSlot(n)] ELSE n
WithArityTuple(K, n, t) ==
  IF K = "Matrix" THEN [n EXCEPT !.ops[MatrixSlot(n)] = t] ELSE t

\* The operand of the tuple of kind K that holds its tag-value list.
ListSlot(K) ==
  CASE K = "SRV" -> kDxilSRV.NameValueList + 1
    [] K = "UAV" -> kDxilUAV.NameValueList + 1
    [] K = "CBuffer" -> kDxilCBuffer.NameValueList + 1
    [] K = "Sampler" -> kDxilSampler.NameValueList + 1
    [] K = "SigElem" -> kDxilSignatureElement.NameValueList + 1

TagValueList(K, n) == IF K = "FieldAnnotation" THEN n ELSE n.ops[ListSlot(K)]
WithTagValueList(K, n, l) ==
  IF K = "FieldAnnotation" THEN l ELSE [n EXCEPT !.ops[ListSlot(K)] = l]

\* The odd-length lists one step away from the list l: a tag without a value
\* appended, or the last value dropped.
OddLists(l) ==
  IF IsNull(l) THEN {MDNode(<<Uint32ToConstMD(0)>>)}
  ELSE {MDNode(Append(l.ops, Uint32ToConstMD(0)))}
       \cup {MDNode(SubSeq(l.ops, 1, Len(l.ops) - 1)) : x \in {y \in {1} : l.ops # <<>>}}

InitRec ==
  /\ kind \in RecKinds
  /\ given \in Models(kind)
  /\ node = Null
  /\ out = FreshRec(kind)
  /\ err = FALSE
  /\ last = "init"
  /\ calls = 0
  /\ named = EmptyModule
  /\ insts = <<>>
  /\ fromBitCode = FALSE

RecEmit ==
  /\ last = "init"
  /\ node' = EmitRec(kind, given)
  /\ last' = "emit"
  /\ UNCHANGED <<named, insts, fromBitCode, kind, given, out, err, calls>>

\* The emitted tuple loses its last operand.
RecDropField ==
  /\ last = "emit"
  /\ kind \in FixedArityKinds \cup AnnotationKinds
  /\ IsTuple(node)
  /\ LET t == ArityTuple(kind, node)
     IN /\ t.ops # <<>>
        /\ node' = WithArityTuple(kind, node, MDNode(SubSeq(t.ops, 1, Len(t.ops) - 1)))
  /\ last' = "short"
  /\ UNCHANGED <<named, insts, fromBitCode, kind, given, out, err, calls>>

\* The emitted tuple gains one operand.
RecAddField ==
  /\ last = "emit"
  /\ kind \in FixedArityKinds \cup AnnotationKinds
  /\ IsTuple(node)
  /\ \E extra \in {Null, Uint32ToConstMD(0)} :
       LET t == ArityTuple(kind, node)
       IN node' = WithArityTuple(kind, node, MDNode(Append(t.ops, extra)))
  /\ last' = "long"
  /\ UNCHANGED <<named, insts, fromBitCode, kind, given, out, err, calls>>

\* The tag-value list of the emitted tuple gets an odd number of operands.
RecOddList ==
  /\ last = "emit"
  /\ kind \in ListKinds
  /\ \E l \in OddLists(TagValueList(kind, node)) :
       node' = WithTagValueList(kind, node, l)
  /\ last' = "odd"
  /\ UNCHANGED <<named, insts, fromBitCode, kind, given, out, err, calls>>

\* Tags no record kind knows: the one after the last field-annotation tag and
\* a distant one.
UnknownTags == {kDxilFieldAnnotation.PreciseTag + 1, 99}

\* The tag-value list of the emitted tuple gains a pair with an unknown tag.
RecUnknownTag ==
  /\ last = "emit"
  /\ kind \in ListKinds
  /\ \E tag \in UnknownTags :
       LET l == TagValueList(kind, node)
           pair == <<Uint32ToConstMD(tag), Uint32ToConstMD(0)>>
       IN node' = WithTagValueList(kind, node,
                    MDNode(IF IsNull(l) THEN pair ELSE l.ops \o pair))
  /\ last' = "unknown"
  /\ UNCHANGED <<named, insts, fromBitCode, kind, given, out, err, calls>>

\* The load-properties routine of kind K.
LoadProperties(K, MDO, R) ==
  CASE K = "SRV" -> LoadSRVProperties(MDO, R)
    [] K = "UAV" -> LoadUAVProperties(MDO, R)
    [] K = "CBuffer" -> LoadCBufferProperties(MDO, R)
    [] K = "Sampler" -> LoadSamplerProperties(MDO, R)
    [] K = "SigElem" -> LoadSignatureElementProperties(MDO, R)

\* A load-properties routine is called on the record given itself, which
\* holds whatever values it was built with, and on a null list, an empty list
\* or the list that was emitted for it; node becomes the list loaded.
RecLoadProperties ==
  /\ last = "emit"
  /\ kind \in ListKinds \ {"FieldAnnotation"}
  /\ \E l \in {Null, MDNode(<<>>), TagValueList(kind, node)} :
       LET r == LoadProperties(kind, l, given)
       IN node' = l /\ out' = r.rec /\ err' = r.err
  /\ last' = "props"
  /\ UNCHANGED <<named, insts, fromBitCode, kind, given, calls>>

\* The operand of the tuple of kind K that refers to a function: the entry
\* function, the patch-constant function, the key of the first pair.
FunctionSlot(K) ==
  CASE K = "EntryPoint" -> kDxilEntryPoint.Function + 1
    [] K = "HSState" -> 1
    [] K = "TypeSystemFunctions" -> 2

\* The function reference of the emitted tuple refers to a global variable.
RecWrongSymbol ==
  /\ last = "emit"
  /\ kind \in {"EntryPoint", "HSState", "TypeSystemFunctions"}
  /\ node' = [node EXCEPT !.ops[FunctionSlot(kind)] = ValueAsMetadata("g_tex")]
  /\ last' = "wrongSym"
  /\ UNCHANGED <<named, insts, fromBitCode, kind, given, out, err, calls>>

\* What a signature element tuple e can be replaced by to make it malformed:
\* no tuple at all, a tuple short of its last field or with one field more, a
\* tuple whose property list is odd or carries an unknown tag.
MalformedElements(e) ==
  {Null, MDString("POSITION"),
   MDNode(SubSeq(e.ops, 1, Len(e.ops) - 1)), MDNode(Append(e.ops, Null))}
  \cup {WithTagValueList("SigElem", e, l) : l \in OddLists(TagValueList("SigElem", e))}
  \cup {WithTagValueList("SigElem", e,
          MDNode((IF IsNull(TagValueList("SigElem", e)) THEN <<>>
                  ELSE TagValueList("SigElem", e).ops)
                 \o <<Uint32ToConstMD(tag), Uint32ToConstMD(0)>>)) : tag \in UnknownTags}

\* One element of the emitted signature list is made malformed.
RecMalformElement ==
  /\ last = "emit"
  /\ kind = "SignatureList"
  /\ \E i \in 1..Len(node.ops) :
       \E bad \in MalformedElements(node.ops[i]) :
         node' = [node EXCEPT !.ops[i] = bad]
  /\ last' = "malformed"
  /\ UNCHANGED <<named, insts, fromBitCode, kind, given, out, err, calls>>

AfterLoad ==
  [emit |-> "load", short |-> "loadShort", long |-> "loadLong", odd |-> "loadOdd",
   unknown |-> "loadUnknown", wrongSym |-> "loadWrongSym",
   malformed |-> "loadMalformed"]

RecLoad ==
  /\ last \in DOMAIN AfterLoad
  /\ \E NullParams \in {0, 1} :
       LET r == LoadRec(kind, node, FreshRec(kind), NullParams)
       IN out' = r.rec /\ err' = r.err
  /\ last' = AfterLoad[last]
  /\ UNCHANGED <<named, insts, fromBitCode, kind, given, node, calls>>

NextRec ==
  \/ RecEmit
  \/ RecDropField
  \/ RecAddField
  \/ RecOddList
  \/ RecUnknownTag
  \/ RecLoadProperties
  \/ RecWrongSymbol
  \/ RecMalformElement
  \/ RecLoad

SpecRec == InitRec /\ [][NextRec]_vars

\* C1: a signature element emitted by EmitSignatureElement and loaded by
\* LoadSignatureElement into a fresh element comes back with every persisted
\* field equal (the index vector with its length and order); the start column
\* travels as an 8-bit and the start row as a 32-bit constant, so -1 is read
\* back as -1 in both.
C1_SignatureElementRoundTrip ==
  (kind = "SigElem" /\ last = "load") =>
    /\ ~err
    /\ out = given
    /\ Op(node, kDxilSignatureElement.StartCol).w = 8
    /\ Op(node, kDxilSignatureElement.StartRow).w = 32
    /\ ConstMDToInt8(Op(node, kDxilSignatureElement.StartCol)) = given.startCol
    /\ ConstMDToInt32(Op(node, kDxilSignatureElement.StartRow)) = given.startRow

C1_Witness ==
  /\ kind = "SigElem"
  /\ last = "load"
  /\ given.startCol = -1
  /\ given.startRow = -1
  /\ given.semIdx = <<1, 0>>
  /\ given.outputStream = 1
  /\ given.dynIdxCompMask = 5
  /\ out.startCol = -1
  /\ out.startRow = -1
  /\ out.semIdx = <<1, 0>>

IsTypedResource(R) == ~IsStructuredBuffer(R) /\ ~IsRawBuffer(R)

\* The tag-value list slot of the emitted resource tuple is empty.
NoTagEmitted == IsNull(TagValueList(kind, node))

\* C2 as stated: every SRV, UAV, CBuffer and Sampler record comes back from
\* emit and load field-for-field, for every resource kind and every value of
\* the optional fields, and no tag is emitted when the optional fields equal
\* the contextual defaults (stride 1 for a raw buffer and 4 otherwise, element
\* type invalid, kind cbuffer).
C2_RoundTripEveryCombination ==
  (kind \in {"SRV", "UAV", "CBuffer", "Sampler"} /\ last = "load") =>
    /\ ~err
    /\ out = given
    /\ (/\ kind \in {"SRV", "UAV"}
        /\ given.compType = CompTypeInvalid
        /\ given.elementStride = (IF IsRawBuffer(given) THEN 1 ELSE 4)) => NoTagEmitted
    /\ (kind = "CBuffer" /\ given.kind = KindCBuffer) => NoTagEmitted
    /\ kind = "Sampler" => NoTagEmitted

\* What a load of the emitted SRV or UAV tuple must give: the element type
\* survives for a typed resource only, the stride for a structured buffer only.
PersistedResource(R) ==
  [R EXCEPT !.elementStride = IF IsStructuredBuffer(R) THEN @
                              ELSE IF IsRawBuffer(R) THEN 1 ELSE 4,
            !.compType = IF IsTypedResource(R) THEN @ ELSE CompTypeInvalid]

\* C2 amended: the base fields and the kind-specific core fields come back
\* for every record.  Of the optional fields the element type comes back for
\* a typed (neither structured nor raw) SRV or UAV, the stride for a
\* structured buffer and the cbuffer/tbuffer kind for a CBuffer; an optional
\* field the kind does not persist is reset to its contextual default
\* (element type invalid; stride 1 for a raw buffer, 4 otherwise).  No tag is
\* emitted exactly for a raw-buffer SRV or UAV, for a CBuffer of kind cbuffer
\* and for a Sampler.
C2_RoundTripPersistedFields ==
  (kind \in {"SRV", "UAV", "CBuffer", "Sampler"} /\ last = "load") =>
    /\ ~err
    /\ kind \in {"SRV", "UAV"} =>
         /\ out = PersistedResource(given)
         /\ NoTagEmitted <=> IsRawBuffer(given)
    /\ kind = "CBuffer" =>
         /\ out = given
         /\ NoTagEmitted <=> given.kind = KindCBuffer
    /\ kind = "Sampler" => (out = given /\ NoTagEmitted)

C2_Witness ==
  /\ kind = "SRV"
  /\ last = "load"
  /\ ~err
  /\ IsRawBuffer(given)
  /\ given.elementStride = 4
  /\ given.compType = CompTypeF32
  /\ out.elementStride = 1
  /\ out.compType = CompTypeInvalid
  /\ out.lowerBound = 3

\* The record the failed load was handed has no field written.
TargetUntouched ==
  IF kind = "Matrix" THEN out.matrix = NoMatrix ELSE out = FreshRec(kind)

\* C9: the load of a fixed-arity tuple (version pair, shader model, entry
\* point, signature group, signature element, SRV, UAV, CBuffer, Sampler, GS,
\* DS and HS state, parameter annotation, matrix annotation, resource-list
\* tuple) with one operand less or one operand more than Emit writes fails,
\* and fails before any field of the target record is written.
C9_WrongArityFailsBeforeWrite ==
  (kind \in FixedArityKinds /\ last \in {"loadShort", "loadLong"}) =>
    (err /\ TargetUntouched)

C9_Witness ==
  /\ kind = "SigElem"
  /\ last = "loadLong"
  /\ NumOperands(node) = kDxilSignatureElement.NumFields + 1
  /\ err
  /\ out = FreshSE
  /\ given.id = 1

\* C10 as stated: for a field annotation, an SRV, a UAV, a CBuffer, a Sampler
\* and a signature element, the load of a tuple whose tag-value list has an
\* odd number of operands fails.
C10_OddListFails ==
  (kind \in ListKinds /\ last = "loadOdd") => err

\* A sampler tuple whose list has one operand was loaded without an error.
C10_Witness ==
  /\ kind = "Sampler"
  /\ last = "loadOdd"
  /\ NumOperands(Op(node, kDxilSampler.NameValueList)) = 1
  /\ ~err
  /\ out = given

\* C11 as stated: the load of a tag-value list that holds a tag its record
\* kind does not know fails, for a field annotation and for the property
\* lists of an SRV, a UAV, a CBuffer and a signature element alike; no
\* unknown tag is skipped.
C11_UnknownTagFails ==
  (kind \in {"FieldAnnotation", "SRV", "UAV", "CBuffer", "SigElem"} /\ last = "loadUnknown")
    => err

\* An SRV tuple whose property list ends with the pair (99, 0) was loaded
\* without an error, the pair skipped.
C11_Witness ==
  /\ kind = "SRV"
  /\ last = "loadUnknown"
  /\ LET l == Op(node, kDxilSRV.NameValueList)
     IN ConstMDToUint32(l.ops[Len(l.ops) - 1]) = 99
  /\ ~err
  /\ out = PersistedResource(given)

(***************************************************************************)
(* Specification SpecScalar: one value is encoded by one scalar encoder    *)
(* and the node is handed to one scalar decoder.  given is the encoder and *)
(* its argument, node the node, kind the decoder, out the decoded value,   *)
(* err whether the decoder threw.                                          *)
(***************************************************************************)
ScalarInputs ==
  [enc : {"Int32ToConstMD"}, v : {0, 1, 127, 300}]
    \cup [enc : {"Uint32ToConstMD"}, v : {0, 1, 255, 300, 65541}]
    \cup [enc : {"Uint64ToConstMD"}, v : {0, 1, 300}]
    \cup [enc : {"Int8ToConstMD"}, v : {-1, 0, 1, 127}]
    \cup [enc : {"Uint8ToConstMD"}, v : {0, 1, 200, 255}]
    \cup [enc : {"BoolToConstMD"}, v : BOOLEAN]
    \cup [enc : {"FloatToConstMD"}, v : {"0.0", "1.5"}]

ScalarEncode(enc, v) ==
  CASE enc = "Int32ToConstMD" -> Int32ToConstMD(v)
    [] enc = "Uint32ToConstMD" -> Uint32ToConstMD(v)
    [] enc = "Uint64ToConstMD" -> Uint64ToConstMD(v)
    [] enc = "Int8ToConstMD" -> Int8ToConstMD(v)
    [] enc = "Uint8ToConstMD" -> Uint8ToConstMD(v)
    [] enc = "BoolToConstMD" -> BoolToConstMD(v)
    [] enc = "FloatToConstMD" -> FloatToConstMD(v)

\* Each decoder with the encoder that writes the nodes it is meant for.
ScalarDecoders ==
  [ConstMDToInt32 |-> "Int32ToConstMD", ConstMDToUint32 |-> "Uint32ToConstMD",
   ConstMDToUint64 |-> "Uint64ToConstMD", ConstMDToInt8 |-> "Int8ToConstMD",
   ConstMDToUint8 |-> "Uint8ToConstMD", ConstMDToBool |-> "BoolToConstMD",
   ConstMDToFloat |-> "FloatToConstMD"]

ScalarDecode(dec, n) ==
  CASE dec = "ConstMDToInt32" -> ConstMDToInt32(n)
    [] dec = "ConstMDToUint32" -> ConstMDToUint32(n)
    [] dec = "ConstMDToUint64" -> ConstMDToUint64(n)
    [] dec = "ConstMDToInt8" -> ConstMDToInt8(n)
    [] dec = "ConstMDToUint8" -> ConstMDToUint8(n)
    [] dec = "ConstMDToBool" -> ConstMDToBool(n)
    [] dec = "ConstMDToFloat" -> ConstMDToFloat(n)

\* The class mdconst::extract<> casts the node to: ConstantFP for
\* ConstMDToFloat, ConstantInt for the others.
ExtractClass(dec) == IF dec = "ConstMDToFloat" THEN "fp" ELSE "int"

\* What a decoder may give for a node of the other class: extract<> is an
\* unchecked cast there, so the value is some arbitrary bit pattern and the
\* null test that follows it may or may not fire.
UndefinedValues == {[bits |-> b] : b \in {0, 1}}

InitScalar ==
  /\ kind \in DOMAIN ScalarDecoders
  /\ given \in ScalarInputs
  /\ node = Null
  /\ out = Null
  /\ err = FALSE
  /\ last = "init"
  /\ calls = 0
  /\ named = EmptyModule
  /\ insts = <<>>
  /\ fromBitCode = FALSE

ApplyEncoder ==
  /\ last = "init"
  /\ node' = ScalarEncode(given.enc, given.v)
  /\ last' = "encoded"
  /\ UNCHANGED <<named, insts, fromBitCode, kind, given, out, err, calls>>

\* The decoder is handed a node of the class it casts to.
ApplyDecoder ==
  /\ last = "encoded"
  /\ node.k = ExtractClass(kind)
  /\ out' = ScalarDecode(kind, node)
  /\ err' = FALSE
  /\ last' = "decoded"
  /\ UNCHANGED <<named, insts, fromBitCode, kind, given, node, calls>>

\* The decoder is handed a node of the other class.
ApplyDecoderWrongClass ==
  /\ last = "encoded"
  /\ node.k # ExtractClass(kind)
  /\ out' \in UndefinedValues
  /\ err' \in BOOLEAN
  /\ last' = "undefined"
  /\ UNCHANGED <<named, insts, fromBitCode, kind, given, node, calls>>

NextScalar ==
  \/ ApplyEncoder
  \/ ApplyDecoder
  \/ ApplyDecoderWrongClass

SpecScalar == InitScalar /\ [][NextScalar]_vars

\* The node is of exactly the kind and width the decoder's own encoder writes.
ExactNode ==
  LET own == ScalarEncode(ScalarDecoders[kind], IF kind = "ConstMDToFloat" THEN "0.0"
                                               ELSE IF kind = "ConstMDToBool" THEN FALSE ELSE 0)
  IN /\ node.k = own.k
     /\ node.k = "int" => node.w = own.w

\* C12 as stated: a scalar decoder handed a node that is not a scalar of
\* exactly its kind and bit width fails; an integer node of another width is
\* never accepted and truncated or widened.
C12_ExactWidthOnly ==
  (last \in {"decoded", "undefined"} /\ ~ExactNode) => err

\* The 32-bit node 300 was accepted by ConstMDToUint8 and truncated to 44.
C12_Witness ==
  /\ kind = "ConstMDToUint8"
  /\ last = "decoded"
  /\ node = Uint32ToConstMD(300)
  /\ ~err
  /\ out = 44

\* The operands of the tag-value list of the emitted tuple (none for a null
\* slot), and the pairs among them that carry the tag.
EmittedPairs ==
  LET l == TagValueList(kind, node) IN IF IsNull(l) THEN <<>> ELSE l.ops
PairsWithTag(tag) ==
  {i \in 1..Len(EmittedPairs) : i % 2 = 1 /\ ConstMDToUint32(EmittedPairs[i]) = tag}
HasPair(tag, value) ==
  \E i \in PairsWithTag(tag) : EmittedPairs[i + 1] = value

\* The pairs the claim allows for the record: tag, value and whether due.
DuePairs ==
  CASE kind \in {"SRV", "UAV"} ->
         {[tag |-> kDxilTypedBufferElementTypeTag, value |-> Uint32ToConstMD(given.compType),
           due |-> ~IsStructuredBuffer(given) /\ ~IsRawBuffer(given)],
          [tag |-> kDxilStructuredBufferElementStrideTag,
           value |-> Uint32ToConstMD(given.elementStride), due |-> IsStructuredBuffer(given)]}
    [] kind = "CBuffer" ->
         {[tag |-> kHLCBufferIsTBufferTag, value |-> BoolToConstMD(TRUE),
           due |-> given.kind = KindTBuffer]}
    [] kind = "SigElem" ->
         {[tag |-> kDxilSignatureElement.OutputStreamTag,
           value |-> Uint32ToConstMD(given.outputStream), due |-> given.outputStream # 0],
          [tag |-> kDxilSignatureElement.DynIdxCompMaskTag,
           value |-> Uint32ToConstMD(given.dynIdxCompMask), due |-> given.dynIdxCompMask # 0]}
    [] kind = "Sampler" -> {}

\* C13: the default property strategy emits the element-type pair exactly for
\* an SRV or UAV that is neither a structured nor a raw buffer, the stride
\* pair exactly for a structured buffer, the tbuffer marker exactly for a
\* CBuffer of kind tbuffer, the output-stream pair and the dynamic-index mask
\* pair exactly when the value is not zero, and nothing for a Sampler; a
\* record with no pair gets a null list slot, never an empty tuple, and every
\* emitted list has an even number of operands.
C13_PropertyPairsEmitted ==
  (kind \in {"SRV", "UAV", "CBuffer", "Sampler", "SigElem"} /\ last = "emit") =>
    /\ \A p \in DuePairs :
         /\ p.due <=> PairsWithTag(p.tag) # {}
         /\ p.due => HasPair(p.tag, p.value)
    /\ Len(EmittedPairs) = 2 * Cardinality({p \in DuePairs : p.due})
    /\ IsNull(TagValueList(kind, node)) <=> {p \in DuePairs : p.due} = {}
    /\ IsNull(TagValueList(kind, node)) \/ IsTuple(TagValueList(kind, node))

\* A raw-buffer UAV with a stride and an element type set was emitted with a
\* null list slot.
C13_Witness ==
  /\ last = "emit"
  /\ kind = "UAV"
  /\ IsRawBuffer(given)
  /\ given.compType = CompTypeF32
  /\ given.elementStride = 16
  /\ IsNull(Op(node, kDxilUAV.NameValueList))

\* The optional fields of record R of the kind at hand hold their contextual
\* defaults.
OptionalFieldsAtDefault(R) ==
  CASE kind \in {"SRV", "UAV"} ->
         /\ R.elementStride = (IF IsRawBuffer(R) THEN 1 ELSE 4)
         /\ R.compType = CompTypeInvalid
    [] kind = "CBuffer" -> R.kind = KindCBuffer
    [] kind = "SigElem" -> R.outputStream = 0 /\ R.dynIdxCompMask = 0

\* C14 as stated: LoadSRVProperties, LoadUAVProperties, LoadCBufferProperties
\* and LoadSignatureElementProperties first reset the optional fields, so
\* after the load of a null or an empty list the optional fields equal the
\* defaults whatever the record held before the call.
C14_ResetBeforeTags ==
  (/\ kind \in {"SRV", "UAV", "CBuffer", "SigElem"}
   /\ last = "props"
   /\ node \in {Null, MDNode(<<>>)})
    => (~err /\ OptionalFieldsAtDefault(out))

\* LoadCBufferProperties was called with a null list on a record of kind
\* tbuffer and left the kind as it was.
C14_Witness ==
  /\ kind = "CBuffer"
  /\ last = "props"
  /\ IsNull(node)
  /\ given.kind = KindTBuffer
  /\ ~err
  /\ out.kind = KindTBuffer

\* The struct type loaded into has exactly one element, the 8-bit marker.
IsMarkerStruct(structType) == StructElementTypes[structType] = <<"i8">>

\* C15: LoadDxilStructAnnotation given a tuple of arity 1 (the cbuffer size
\* alone) succeeds and marks the struct empty when the struct type has
\* exactly one element and it is the 8-bit marker type; when the struct has
\* one element of another type the load fails, and the struct is not marked
\* empty.
C15_EmptyStructAnnotation ==
  (/\ kind = "StructAnnotation"
   /\ last \in {"load", "loadShort"}
   /\ NumOperands(node) = 1
   /\ Len(StructElementTypes[given.structType]) = 1)
    => IF IsMarkerStruct(given.structType)
         THEN /\ ~err
              /\ out.fields = <<>>
              /\ out.cbufferSize = given.cbufferSize
         ELSE err /\ out.fields # <<>>

\* The size-only tuple of the empty struct was loaded and the struct marked
\* empty.
C15_Witness ==
  /\ kind = "StructAnnotation"
  /\ last = "load"
  /\ given.structType = "SEmpty"
  /\ given.fields = <<>>
  /\ given.cbufferSize = 16
  /\ NumOperands(node) = 1
  /\ ~err
  /\ out.fields = <<>>
  /\ out.cbufferSize = 16

(***************************************************************************)
(* Specification SpecEntry: one named entry of one module.  The entry is   *)
(* written by its emit function (or not at all), optionally changed the    *)
(* way another producer of the container could have written it (an operand *)
(* more, no operand, an all-zero blob, a damaged tuple of the type system), *)
(* and loaded into a target object.                                        *)
(* given is the argument of the emit, named the module, node the target    *)
(* before the load, out the target after it, err whether the load threw.   *)
(***************************************************************************)
EntryName ==
  [Version |-> kDxilVersionMDName, ValidatorVersion |-> kDxilValidatorVersionMDName,
   ShaderModel |-> kDxilShaderModelMDName, EntryPoints |-> kDxilEntryPointsMDName,
   TypeSystem |-> kDxilTypeSystemMDName, RootSignature |-> kDxilRootSignatureMDName,
   ViewIdState |-> kDxilViewIdStateMDName]

EntryKinds == DOMAIN EntryName

EntryArgs(K) ==
  CASE K \in {"Version", "ValidatorVersion"} -> [Major : VersionNums, Minor : VersionNums]
    [] K = "ShaderModel" -> ValidShaderModels
    [] K = "EntryPoints" -> {<<TheEntryPoint>>}
    [] K = "TypeSystem" -> TypeSystems
    [] K = "RootSignature" -> RootSignatures
    [] K = "ViewIdState" -> ViewIdData

\* The objects a load is handed: freshly constructed ones and ones that hold
\* the result of earlier work.
EntryTargets(K) ==
  CASE K \in {"Version", "ValidatorVersion"} ->
         {[Major |-> 0, Minor |-> 0], [Major |-> 7, Minor |-> 7]}
    [] K = "ShaderModel" -> {[kindName |-> "invalid", Major |-> 0, Minor |-> 0]}
    [] K = "EntryPoints" -> {NoNamedMD}
    [] K = "TypeSystem" ->
         {[structs |-> <<>>, funcs |-> <<>>],
          [structs |-> <<AddStructAnnotation("SInt")>>, funcs |-> <<>>]}
    [] K = "RootSignature" -> {[empty |-> TRUE, bytes |-> <<>>], [empty |-> FALSE, bytes |-> <<9>>]}
    [] K = "ViewIdState" -> {<<>>, <<0, 0>>, <<0, 5>>}

EmitEntry(K, M, A) ==
  CASE K = "Version" -> EmitDxilVersion(M, A.Major, A.Minor)
    [] K = "ValidatorVersion" -> EmitValidatorVersion(M, A.Major, A.Minor)
    [] K = "ShaderModel" -> EmitDxilShaderModel(M, A)
    [] K = "EntryPoints" -> EmitDxilEntryPoints(M, A)
    [] K = "TypeSystem" -> EmitDxilTypeSystem(M, A)
    [] K = "RootSignature" -> EmitRootSignature(M, A)
    [] K = "ViewIdState" -> EmitDxilViewIdState(M, A)

LoadEntry(K, M, T, NullParams) ==
  CASE K = "Version" -> LoadDxilVersion(M, T)
    [] K = "ValidatorVersion" -> LoadValidatorVersion(M, T)
    [] K = "ShaderModel" -> LoadDxilShaderModel(M, T)
    [] K = "EntryPoints" -> GetDxilEntryPoints(M)
    [] K = "TypeSystem" -> LoadDxilTypeSystem(M, T, NullParams)
    [] K = "RootSignature" -> LoadRootSignature(M, T)
    [] K = "ViewIdState" -> LoadDxilViewIdState(M, T)

InitEntry ==
  /\ kind \in EntryKinds
  /\ given \in EntryArgs(kind)
  /\ node \in EntryTargets(kind)
  /\ out = node
  /\ named = EmptyModule
  /\ err = FALSE
  /\ last = "init"
  /\ calls = 0
  /\ insts = <<>>
  /\ fromBitCode = FALSE

EntryEmit ==
  /\ last = "init"
  /\ named' = EmitEntry(kind, named, given).named
  /\ last' = "emit"
  /\ UNCHANGED <<insts, fromBitCode, kind, given, node, out, err, calls>>

\* The entry holds its first operand twice.
EntryAddOperand ==
  /\ last = "emit"
  /\ getNamedMetadata(named, EntryName[kind])
  /\ named' = addOperand(named, EntryName[kind], named[EntryName[kind]].ops[1])
  /\ last' = "extra"
  /\ UNCHANGED <<insts, fromBitCode, kind, given, node, out, err, calls>>

\* The entry is there without an operand.
EntryDropOperands ==
  /\ last = "emit"
  /\ getNamedMetadata(named, EntryName[kind])
  /\ named' = [named EXCEPT ![EntryName[kind]].ops = <<>>]
  /\ last' = "dropped"
  /\ UNCHANGED <<insts, fromBitCode, kind, given, node, out, err, calls>>

\* The entry holds one tuple whose only field is an all-zero blob.
EntryZeroBlob ==
  /\ last \in {"init", "emit"}
  /\ kind \in {"RootSignature", "ViewIdState"}
  /\ \E n \in {0, 2} :
       named' = ModuleWith(EntryName[kind],
                  MDNode(<<ConstantAggregateZero(IF kind = "ViewIdState" THEN 32 ELSE 8, n)>>))
  /\ last' = "zero"
  /\ UNCHANGED <<insts, fromBitCode, kind, given, node, out, err, calls>>

\* A metadata node that is not a tuple, and tags the type system does not know.
OtherMDNode == [k |-> "dinode"]
OtherTypeSystemTags == {kDxilTypeSystem.FunctionTag + 1, 99}

\* What one tuple t of the type-annotations entry can be replaced by: the same
\* with another tag, with an even operand count, or a node that is no tuple.
DamagedTuples(t) ==
  [wrongTag |-> {MDNode(<<Uint32ToConstMD(tag)>> \o Tail(t.ops)) : tag \in OtherTypeSystemTags},
   evenTuple |-> {MDNode(SubSeq(t.ops, 1, Len(t.ops) - 1)), MDNode(Append(t.ops, Null))},
   nonTuple |-> {OtherMDNode}]

\* One tuple of the type-annotations entry is damaged.
EntryDamageTuple ==
  /\ last = "emit"
  /\ kind = "TypeSystem"
  /\ \E i \in 1..Len(named[kDxilTypeSystemMDName].ops) :
       \E d \in DOMAIN DamagedTuples(named[kDxilTypeSystemMDName].ops[i]) :
         \E t \in DamagedTuples(named[kDxilTypeSystemMDName].ops[i])[d] :
           /\ named' = [named EXCEPT ![kDxilTypeSystemMDName].ops[i] = t]
           /\ last' = d
  /\ UNCHANGED <<insts, fromBitCode, kind, given, node, out, err, calls>>

AfterEntryLoad ==
  [init |-> "loadInit", emit |-> "loadEmit", extra |-> "loadExtra",
   dropped |-> "loadDropped", zero |-> "loadZero", wrongTag |-> "loadWrongTag",
   evenTuple |-> "loadEvenTuple", nonTuple |-> "loadNonTuple"]

EntryLoad ==
  /\ last \in DOMAIN AfterEntryLoad
  /\ \E NullParams \in {0, 1} :
       LET r == LoadEntry(kind, named, node, NullParams)
       IN out' = r.rec /\ err' = r.err
  /\ last' = AfterEntryLoad[last]
  /\ UNCHANGED <<named, insts, fromBitCode, kind, given, node, calls>>

NextEntry ==
  \/ EntryEmit
  \/ EntryAddOperand
  \/ EntryDropOperands
  \/ EntryZeroBlob
  \/ EntryDamageTuple
  \/ EntryLoad

SpecEntry == InitEntry /\ [][NextEntry]_vars

Loaded == last \in {AfterEntryLoad[l] : l \in DOMAIN AfterEntryLoad}
EntryPresent == getNamedMetadata(named, EntryName[kind])

\* The target after the load is the documented default of its subsystem.
AtDocumentedDefault ==
  CASE kind = "ValidatorVersion" -> out = [Major |-> 1, Minor |-> 0]
    [] kind = "TypeSystem" -> out = [structs |-> <<>>, funcs |-> <<>>]
    [] kind = "RootSignature" -> out.empty
    [] kind = "ViewIdState" -> ~AnyNonZero(out)

\* C16 as stated: LoadValidatorVersion, LoadDxilTypeSystem, LoadRootSignature
\* and LoadDxilViewIdState called on a module without the entry return
\* without an error, and the result is the documented default: validator
\* version (1, 0), an empty type system, no root signature, an all-zero
\* view-id state.
C16_AbsentEntryGivesDefault ==
  (/\ kind \in {"ValidatorVersion", "TypeSystem", "RootSignature", "ViewIdState"}
   /\ Loaded
   /\ ~EntryPresent)
    => (~err /\ AtDocumentedDefault)

\* LoadRootSignature on a module without the entry left the root signature
\* the handle held before.
C16_Witness ==
  /\ kind = "RootSignature"
  /\ Loaded
  /\ ~EntryPresent
  /\ ~node.empty
  /\ ~err
  /\ out = node

\* C17: EmitDxilViewIdState creates the dx.viewIdState entry if and only if
\* the serialized data holds a word that is not zero; for all-zero or empty
\* data the module is left as it was, and an entry that is emitted has one
\* operand with one field, the words in their order.
C17_ViewIdStateEmittedIffNonZero ==
  last = "EmitDxilViewIdState" =>
    LET name == kDxilViewIdStateMDName
        created == ~getNamedMetadata(given, name) /\ getNamedMetadata(named, name)
    IN /\ ~AnyNonZero(out.data) => (~err /\ named = given)
       /\ ~getNamedMetadata(given, name) => (created <=> AnyNonZero(out.data))
       /\ created =>
            /\ ~err
            /\ named = [given EXCEPT ![name] = named[name]]
            /\ Len(named[name].ops) = 1
            /\ NumOperands(named[name].ops[1]) = 1
            /\ Op(named[name].ops[1], 0) = [k |-> "data", elt |-> 32, vals |-> out.data]

\* The data <<0, 5>>, whose first word is zero, was emitted by a call that
\* was not the first on the module.
C17_Witness ==
  /\ last = "EmitDxilViewIdState"
  /\ out.data = <<0, 5>>
  /\ ~getNamedMetadata(given, kDxilViewIdStateMDName)
  /\ Op(named[kDxilViewIdStateMDName].ops[1], 0).vals = <<0, 5>>
  /\ calls >= 2

\* The entry holds one tuple whose only field is an all-zero blob.
HoldsZeroBlob ==
  /\ EntryPresent
  /\ Len(named[EntryName[kind]].ops) = 1
  /\ NumOperands(named[EntryName[kind]].ops[1]) = 1
  /\ Op(named[EntryName[kind]].ops[1], 0).k = "zero"

\* C18 as stated: LoadDxilViewIdState gives the same view-id state, the
\* all-zero one, whether dx.viewIdState is missing or holds an all-zero
\* blob, whatever the target held before the call.
C18_MissingAndZeroBlobGiveZeroState ==
  (kind = "ViewIdState" /\ Loaded /\ (~EntryPresent \/ HoldsZeroBlob))
    => (~err /\ ~AnyNonZero(out))

\* A view-id state holding <<0, 5>> was loaded from an all-zero blob and still
\* holds <<0, 5>>.
C18_Witness ==
  /\ kind = "ViewIdState"
  /\ last = "loadZero"
  /\ HoldsZeroBlob
  /\ node = <<0, 5>>
  /\ ~err
  /\ out = <<0, 5>>

\* C19 as stated: a load that reads a function reference fails when the
\* symbol referred to is not a function: the entry function of
\* GetDxilEntryPoint, the patch-constant function of LoadDxilHSState and the
\* function key of a pair of the function-tagged type-system tuple; none
\* hands a null function on.
C19_NonFunctionReferenceFails ==
  (kind \in {"EntryPoint", "HSState", "TypeSystemFunctions"} /\ last = "loadWrongSym") => err

\* The HS state whose first operand refers to a global variable was loaded
\* without an error, the patch-constant function a null pointer.
C19_Witness ==
  /\ kind = "HSState"
  /\ last = "loadWrongSym"
  /\ Op(node, 0) = ValueAsMetadata("g_tex")
  /\ ~err
  /\ out.patchConstantFunction = NullPtr
  /\ out.outputControlPointCount = given.outputControlPointCount

\* C20 as stated: LoadDxilVersion, LoadDxilShaderModel and GetDxilEntryPoints
\* fail when their entry is absent and when it does not hold exactly one
\* operand; and LoadDxilVersion after EmitDxilVersion(M, m) on an empty module
\* returns (M, m).
C20_RequiredEntryHasOneOperand ==
  (kind \in {"Version", "ShaderModel", "EntryPoints"} /\ Loaded) =>
    /\ (~EntryPresent \/ Len(named[EntryName[kind]].ops) # 1) => err
    /\ (kind = "Version" /\ last = "loadEmit") => (~err /\ out = given)

\* GetDxilEntryPoints returned a dx.entryPoints entry of two operands.
C20_Witness ==
  /\ kind = "EntryPoints"
  /\ last = "loadExtra"
  /\ Len(named[kDxilEntryPointsMDName].ops) = 2
  /\ ~err
  /\ out = named[kDxilEntryPointsMDName]

(***************************************************************************)
(* Claims about the resources entry, checked under SpecRegistry.           *)
(***************************************************************************)
\* The field of the resources tuple is a list (a tuple) or null.
IsListOrNull(n) == IsNull(n) \/ IsTuple(n)

\* C21: the resources entry, when present, holds exactly one operand of
\* exactly four fields, each a tuple or null and not all four null, which
\* GetDxilResources returns in the order SRV, UAV, CBuffer, Sampler; and a
\* call of EmitDxilResourceTuple with four null lists does not create the
\* entry.
C21_ResourcesEntryShape ==
  /\ named[kDxilResourcesMDName].present =>
       /\ Len(named[kDxilResourcesMDName].ops) = 1
       /\ LET t == named[kDxilResourcesMDName].ops[1]
          IN /\ NumOperands(t) = kDxilNumResourceFields
             /\ \A i \in 0..3 : IsListOrNull(Op(t, i))
             /\ \E i \in 0..3 : ~IsNull(Op(t, i))
             /\ GetDxilResources(t, NoResources)
                  = Ok([srvs |-> Op(t, 0), uavs |-> Op(t, 1),
                        cbuffers |-> Op(t, 2), samplers |-> Op(t, 3)])
  /\ (last = "EmitDxilResourceTuple" /\ ~err) =>
       named[kDxilResourcesMDName].ops = <<ResourceTuple(out)>>
  /\ (last = "EmitDxilResourceTuple" /\ out = NoResources) =>
       named[kDxilResourcesMDName] = given[kDxilResourcesMDName]

\* A call with four null lists on a module without the entry succeeded and
\* registered a tuple of four nulls.
C21_Witness ==
  /\ last = "EmitDxilResourceTuple"
  /\ out = NoResources
  /\ ~err
  /\ ~given[kDxilResourcesMDName].present
  /\ named[kDxilResourcesMDName].present
  /\ named[kDxilResourcesMDName].ops = <<MDNode(<<Null, Null, Null, Null>>)>>

(***************************************************************************)
(* Specification SpecHints: EmitControlFlowHints is called up to           *)
(* MaxHintCalls times on one LLVMContext.  node is the context, the        *)
(* sequence of the metadata nodes allocated so far (a node's identity is   *)
(* its position), given the hint list of the last call and out the         *)
(* identity of the node it returned.                                       *)
(***************************************************************************)
MaxHints == 3       \* longest hint list
MaxHintCalls == 2   \* calls on one context

ControlFlowHint ==
  [Undefined |-> 0, Branch |-> 1, Flatten |-> 2, FastOpt |-> 3,
   AllowUavCondition |-> 4, ForceCase |-> 5, Call |-> 6]

kDxilControlFlowHintMDName == "dx.controlflow.hints"

\* An operand that refers to the node of identity id.
NodeRef(id) == [k |-> "ref", id |-> id]

\* MDNode::getTemporary and MDNode::get on operands that hold a temporary:
\* a new node, never an existing one.
NewMDNode(Ctx, ops, temporary) ==
  [ctx |-> Append(Ctx, [ops |-> ops, temporary |-> temporary, deleted |-> FALSE]),
   id |-> Len(Ctx) + 1]

\* MDNode::replaceOperandWith(I, New) on the node of identity id.
replaceOperandWith(Ctx, id, I, New) == [Ctx EXCEPT ![id].ops[I + 1] = New]

\* The end of a TempMDNode: every use left is replaced by null, and the node
\* is freed.
deleteTemporary(Ctx, id) ==
  [n \in 1..Len(Ctx) |->
     IF n = id THEN [Ctx[n] EXCEPT !.deleted = TRUE]
     ELSE [Ctx[n] EXCEPT !.ops = [j \in 1..Len(Ctx[n].ops) |->
                                    IF Ctx[n].ops[j] = NodeRef(id) THEN Null
                                    ELSE Ctx[n].ops[j]]]]

HintArgs(TempNode, hints) ==
  <<NodeRef(TempNode), MDString(kDxilControlFlowHintMDName)>>
  \o [i \in 1..Len(hints) |-> Uint32ToConstMD(hints[i])]

\* The function without the rewrite of operand 0.
EmitControlFlowHints_NoSelfReference(Ctx, hints) ==
  LET TempNode == NewMDNode(Ctx, <<>>, TRUE)
      hintsNode == NewMDNode(TempNode.ctx, HintArgs(TempNode.id, hints), FALSE)
  IN [ctx |-> deleteTemporary(hintsNode.ctx, TempNode.id), id |-> hintsNode.id]

EmitControlFlowHints(Ctx, hints) ==
  LET TempNode == NewMDNode(Ctx, <<>>, TRUE)
      hintsNode == NewMDNode(TempNode.ctx, HintArgs(TempNode.id, hints), FALSE)
      Patched == replaceOperandWith(hintsNode.ctx, hintsNode.id, 0, NodeRef(hintsNode.id))
  IN [ctx |-> deleteTemporary(Patched, TempNode.id), id |-> hintsNode.id]

HintLists == SeqsUpTo({ControlFlowHint.Branch, ControlFlowHint.Flatten}, MaxHints)

InitHints ==
  /\ node = <<>>
  /\ given = <<>>
  /\ out = 0
  /\ err = FALSE
  /\ last = "init"
  /\ calls = 0
  /\ kind = "hints"
  /\ named = EmptyModule
  /\ insts = <<>>
  /\ fromBitCode = FALSE

CallEmitControlFlowHints ==
  /\ calls < MaxHintCalls
  /\ \E hints \in HintLists :
       LET r == EmitControlFlowHints(node, hints)
       IN /\ node' = r.ctx
          /\ out' = r.id
          /\ given' = hints
  /\ last' = "EmitControlFlowHints"
  /\ calls' = calls + 1
  /\ UNCHANGED <<named, insts, fromBitCode, kind, err>>

NextHints == CallEmitControlFlowHints

SpecHints == InitHints /\ [][NextHints]_vars

\* Some node of the context still refers to a freed node.
DanglingReference ==
  \E n \in 1..Len(node) :
    /\ ~node[n].deleted
    /\ \E j \in 1..Len(node[n].ops) :
         /\ node[n].ops[j].k = "ref"
         /\ node[node[n].ops[j].id].deleted

\* C22: the node EmitControlFlowHints returns for n hints has exactly n + 2
\* operands: operand 0 is the returned node itself, operand 1 the string
\* "dx.controlflow.hints", operands 2..n+1 the hint codes in the order of the
\* list; the placeholder is referred to by no node.
C22_HintsTupleShape ==
  last = "EmitControlFlowHints" =>
    /\ ~node[out].temporary /\ ~node[out].deleted
    /\ Len(node[out].ops) = Len(given) + 2
    /\ node[out].ops[1] = NodeRef(out)
    /\ node[out].ops[2] = MDString("dx.controlflow.hints")
    /\ \A i \in 1..Len(given) : ConstMDToUint32(node[out].ops[i + 2]) = given[i]
    /\ \A i \in 1..Len(given) : node[out].ops[i + 2].w = 32
    /\ ~DanglingReference

\* The second call on a context, with three hints that are not all the same.
C22_Witness ==
  /\ last = "EmitControlFlowHints"
  /\ calls = 2
  /\ given = <<ControlFlowHint.Flatten, ControlFlowHint.Branch, ControlFlowHint.Branch>>
  /\ out = 4
  /\ Len(node[out].ops) = 5
  /\ node[out].ops[1] = NodeRef(4)

(***************************************************************************)
(* Claims about partial loads, checked under SpecRec.                      *)
(***************************************************************************)
\* The position (from 0) of the element of the signature list that was made
\* malformed: the first operand that is not the tuple emitted for its element.
MalformedPosition ==
  (CHOOSE i \in 1..Len(node.ops) : node.ops[i] # EmitSignatureElement(given[i])) - 1

\* C23: a load of a signature list whose element at position i is malformed
\* fails, and the signature loaded into holds exactly the i elements before
\* it, in list order.
C23_PartialSignatureKept ==
  (kind = "SignatureList" /\ last = "loadMalformed") =>
    /\ err
    /\ out = SubSeq(given, 1, MalformedPosition)

\* The element at position 1 of three carries an unknown property tag; the
\* load succeeded and appended all three elements.
C23_Witness ==
  /\ kind = "SignatureList"
  /\ last = "loadMalformed"
  /\ Len(given) = 3
  /\ MalformedPosition = 1
  /\ IsTuple(node.ops[2])
  /\ NumOperands(node.ops[2]) = kDxilSignatureElement.NumFields
  /\ ~err
  /\ out = given

(***************************************************************************)
(* Claims about the type-annotations entry, checked under SpecEntry.       *)
(***************************************************************************)
\* C24: LoadDxilTypeSystem on the entry EmitDxilTypeSystem wrote adds one
\* struct annotation per (key, annotation) pair of the struct-tagged tuple and
\* one function annotation per pair of the function-tagged tuple; it fails
\* when a tuple carries any other tag, when a tuple has an even operand
\* count, when an operand of the entry is not a tuple and when the entry holds
\* more than two operands.
C24_TypeSystemDispatch ==
  kind = "TypeSystem" =>
    /\ last = "loadEmit" =>
         /\ ~err
         /\ out.structs = node.structs \o given.structs
         /\ out.funcs = node.funcs \o given.funcs
    /\ last \in {"loadWrongTag", "loadEvenTuple", "loadNonTuple"} => err
    /\ (last = "loadExtra" /\ Len(named[kDxilTypeSystemMDName].ops) > 2) => err

\* A function-tagged tuple, the second of the entry, was given an unknown tag:
\* the struct annotation before it was loaded and the load failed.
C24_Witness ==
  /\ kind = "TypeSystem"
  /\ last = "loadWrongTag"
  /\ Len(named[kDxilTypeSystemMDName].ops) = 2
  /\ ConstMDToUint32(Op(named[kDxilTypeSystemMDName].ops[2], 0)) = 99
  /\ NumOperands(named[kDxilTypeSystemMDName].ops[2]) = 3
  /\ err
  /\ out.structs = node.structs \o given.structs
  /\ out.funcs = node.funcs

(***************************************************************************)
(* Claims about struct and function annotations, checked under SpecRec.    *)
(***************************************************************************)
\* The annotations of the record of an annotation kind, and the number the
\* target of the load was built with.
AnnotationsOf(R) == IF kind = "StructAnnotation" THEN R.fields ELSE R.params
TargetCount == Len(AnnotationsOf(FreshRec(kind)))

\* The tuple emitted has one operand per annotation after the leading one
\* (the cbuffer size, the return-type annotation), in order.
EmittedInOrder ==
  /\ NumOperands(node) = Len(AnnotationsOf(given)) + 1
  /\ IF kind = "StructAnnotation"
       THEN /\ Op(node, 0) = Uint32ToConstMD(given.cbufferSize)
            /\ \A i \in 1..Len(given.fields) :
                 Op(node, i) = EmitDxilFieldAnnotation(given.fields[i])
       ELSE /\ Op(node, 0) = EmitDxilParamAnnotation(given.ret)
            /\ \A i \in 1..Len(given.params) :
                 Op(node, i) = EmitDxilParamAnnotation(given.params[i])

\* The i-th annotation of the loaded record is the one operand i decodes to.
LoadedInOrder ==
  /\ Len(AnnotationsOf(out)) = NumOperands(node) - 1
  /\ IF kind = "StructAnnotation"
       THEN /\ out.cbufferSize = ConstMDToUint32(Op(node, 0))
            /\ \A i \in 1..Len(out.fields) :
                 out.fields[i] = LoadDxilFieldAnnotation(Op(node, i), FreshFieldAnnotation).rec
       ELSE /\ out.ret = LoadDxilParamAnnotation(Op(node, 0), FreshParamAnnotation).rec
            /\ \A i \in 1..Len(out.params) :
                 out.params[i] = LoadDxilParamAnnotation(Op(node, i), FreshParamAnnotation).rec

\* The load found the size-only tuple of a struct whose only element is the
\* 8-bit marker.
EmptyStructCase ==
  /\ kind = "StructAnnotation"
  /\ NumOperands(node) = 1
  /\ IsMarkerStruct(given.structType)

\* C25 as stated: EmitDxilStructAnnotation and EmitDxilFunctionAnnotation
\* write count + 1 operands, the annotations in order after the leading
\* operand; LoadDxilStructAnnotation and LoadDxilFunctionAnnotation fail
\* unless the operand count is the field or parameter count of the target
\* + 1, succeed on the tuple emitted for a record of that count, and a load
\* that succeeds fills the i-th annotation from operand i.
C25_ArityFollowsTarget ==
  kind \in AnnotationKinds =>
    /\ last = "emit" => EmittedInOrder
    /\ last \in {"load", "loadShort", "loadLong"} =>
         /\ NumOperands(node) # TargetCount + 1 => err
         /\ (last = "load" /\ NumOperands(node) = TargetCount + 1) => ~err
         /\ ~err => LoadedInOrder

\* C25 amended: the same, except that LoadDxilStructAnnotation given a tuple
\* of one operand and a target whose struct type has the 8-bit marker as its
\* only element marks the struct empty and succeeds, the target then having
\* no field.
C25_ArityFollowsTargetOrMarker ==
  kind \in AnnotationKinds =>
    /\ last = "emit" => EmittedInOrder
    /\ last \in {"load", "loadShort", "loadLong"} =>
         /\ (NumOperands(node) # TargetCount + 1 /\ ~EmptyStructCase) => err
         /\ (last = "load" /\ NumOperands(node) = TargetCount + 1) => ~err
         /\ ~err => LoadedInOrder
         /\ EmptyStructCase => (~err /\ out.fields = <<>>)

\* The two-operand tuple of a one-field struct of element type i8 lost its
\* field annotation; the load into the one-field target succeeded and left it
\* without a field.
C25_Witness ==
  /\ kind = "StructAnnotation"
  /\ last = "loadShort"
  /\ given.structType = "SByte"
  /\ Len(given.fields) = 1
  /\ TargetCount = 1
  /\ NumOperands(node) = 1
  /\ ~err
  /\ out.fields = <<>>
  /\ out.cbufferSize = 16

(***************************************************************************)
(* Claims about the field annotation, checked under SpecRec.               *)
(***************************************************************************)
\* The pair of each property of the annotation given: its tag, the value
\* operand it is written as, and whether the annotation has the property.
FieldProperties ==
  {[tag |-> kDxilFieldAnnotation.FieldNameTag, value |-> MDString(given.fieldName),
    has |-> HasFieldName(given)],
   [tag |-> kDxilFieldAnnotation.PreciseTag, value |-> BoolToConstMD(TRUE),
    has |-> IsPrecise(given)],
   [tag |-> kDxilFieldAnnotation.MatrixTag,
    value |-> MDNode(<<Uint32ToConstMD(given.matrix.rows), Uint32ToConstMD(given.matrix.cols),
                       Uint32ToConstMD(given.matrix.orientation)>>),
    has |-> HasMatrixAnnotation(given)],
   [tag |-> kDxilFieldAnnotation.CBufferOffsetTag,
    value |-> Uint32ToConstMD(IF HasCBufferOffset(given) THEN given.cbufferOffset ELSE 0),
    has |-> HasCBufferOffset(given)],
   [tag |-> kDxilFieldAnnotation.SemanticStringTag, value |-> MDString(given.semanticString),
    has |-> HasSemanticString(given)],
   [tag |-> kDxilFieldAnnotation.InterpolationModeTag, value |-> Uint32ToConstMD(given.interp),
    has |-> HasInterpolationMode(given)],
   [tag |-> kDxilFieldAnnotation.CompTypeTag, value |-> Uint32ToConstMD(given.compType),
    has |-> HasCompType(given)]}

\* C26: EmitDxilFieldAnnotation writes one (tag, value) pair for each
\* property the annotation has and none for a property it lacks, each tag at
\* most once, so an annotation without properties gives the empty tuple;
\* LoadDxilFieldAnnotation of that tuple into a fresh annotation gives every
\* property the value emitted (the matrix with rows, cols and orientation)
\* and leaves every other property unset.
C26_FieldAnnotationRoundTrip ==
  kind = "FieldAnnotation" =>
    /\ last = "emit" =>
         /\ IsTuple(node)
         /\ \A p \in FieldProperties :
              /\ Cardinality(PairsWithTag(p.tag)) = (IF p.has THEN 1 ELSE 0)
              /\ p.has => HasPair(p.tag, p.value)
         /\ Len(node.ops) = 2 * Cardinality({p \in FieldProperties : p.has})
    /\ last = "load" =>
         /\ ~err
         /\ out = given
         /\ \A f \in DOMAIN FreshFieldAnnotation :
              given[f] = FreshFieldAnnotation[f] => out[f] = FreshFieldAnnotation[f]

\* An annotation with a name, a matrix and a component type, and without the
\* four other properties, came back from the three pairs emitted for it.
C26_Witness ==
  /\ kind = "FieldAnnotation"
  /\ last = "load"
  /\ NumOperands(node) = 6
  /\ given.fieldName = "a"
  /\ given.matrix = [rows |-> 4, cols |-> 3, orientation |-> 1]
  /\ given.compType = CompTypeF32
  /\ ~given.precise
  /\ out.matrix = [rows |-> 4, cols |-> 3, orientation |-> 1]
  /\ out.cbufferOffset = NoOffset
  /\ out.semanticString = ""
  /\ out.interp = 0
  /\ ~err

(***************************************************************************)
(* Specification SpecAttr: a resource attribute node (a resource class and *)
(* a resource tuple, which need not agree) is built, optionally cut short, *)
(* and loaded by one of the three ...FromMDNode functions into a record    *)
(* that is fresh or in use.  given holds the class RC, the record the      *)
(* tuple is emitted from and the target before the load; node is the       *)
(* attribute node, out the target after the load.                          *)
(***************************************************************************)
AttrLoaders ==
  {"LoadDxilResourceBaseFromMDNode", "LoadDxilResourceFromMDNode",
   "LoadDxilSamplerFromMDNode"}

AttrUAV ==
  [FreshResource EXCEPT !.class = ClassUAV, !.kind = KindTexture2D, !.id = 1,
                        !.globalSymbol = "g_uav", !.globalName = "uav", !.rangeSize = 1,
                        !.compType = CompTypeF32, !.hasCounter = TRUE]
AttrCBuffer ==
  [FreshCBuffer EXCEPT !.id = 2, !.globalSymbol = "g_cb", !.globalName = "cb",
                       !.rangeSize = 1, !.size = 64]
AttrSampler ==
  [FreshSampler EXCEPT !.id = 3, !.globalSymbol = "g_samp", !.globalName = "samp",
                       !.rangeSize = 1, !.samplerKind = 1]

\* The records a resource tuple is emitted from, and the tuple of each.
AttrPayloads == {SomeSRV, AttrUAV, AttrCBuffer, AttrSampler}
AttrTuple(R) ==
  CASE R.class = ClassSRV -> EmitDxilSRV(R)
    [] R.class = ClassUAV -> EmitDxilUAV(R)
    [] R.class = ClassCBuffer -> EmitDxilCBuffer(R)
    [] R.class = ClassSampler -> EmitDxilSampler(R)

\* The class values a node can carry: the four classes, Invalid, and a value
\* outside the enumeration.
AttrClasses == {ClassSRV, ClassUAV, ClassCBuffer, ClassSampler, ClassInvalid, 7}

\* The classes each function decodes.
AcceptedClasses(loader) ==
  CASE loader = "LoadDxilResourceBaseFromMDNode" ->
         {ClassSRV, ClassUAV, ClassCBuffer, ClassSampler}
    [] loader = "LoadDxilResourceFromMDNode" -> {ClassSRV, ClassUAV}
    [] loader = "LoadDxilSamplerFromMDNode" -> {ClassSampler}

AttrTargets(loader) ==
  CASE loader = "LoadDxilResourceBaseFromMDNode" -> {FreshBase(ClassInvalid), AttrCBuffer}
    [] loader = "LoadDxilResourceFromMDNode" ->
         {FreshResource, [AttrUAV EXCEPT !.globalName = "old", !.rov = TRUE]}
    [] loader = "LoadDxilSamplerFromMDNode" ->
         {FreshSampler, [AttrSampler EXCEPT !.globalName = "old"]}

LoadAttr(loader, MD, R) ==
  CASE loader = "LoadDxilResourceBaseFromMDNode" -> LoadDxilResourceBaseFromMDNode(MD, R)
    [] loader = "LoadDxilResourceFromMDNode" -> LoadDxilResourceFromMDNode(MD, R)
    [] loader = "LoadDxilSamplerFromMDNode" -> LoadDxilSamplerFromMDNode(MD, R)

InitAttr ==
  /\ kind \in AttrLoaders
  /\ given \in [RC : AttrClasses, payload : AttrPayloads, target : AttrTargets(kind)]
  /\ node = Null
  /\ out = given.target
  /\ err = FALSE
  /\ last = "init"
  /\ calls = 0
  /\ named = EmptyModule
  /\ insts = <<>>
  /\ fromBitCode = FALSE

\* The node is built, with the resource tuple or with nothing in its place.
AttrBuild ==
  /\ last = "init"
  /\ \E Meta \in {AttrTuple(given.payload), Null} :
       node' = MDNode(<<Uint32ToConstMD(given.RC), Meta>>)
  /\ last' = "built"
  /\ UNCHANGED <<named, insts, fromBitCode, kind, given, out, err, calls>>

\* The node loses its last operand, or both.
AttrTruncate ==
  /\ last = "built"
  /\ \E n \in {0, 1} : node' = MDNode(SubSeq(node.ops, 1, n))
  /\ last' = "short"
  /\ UNCHANGED <<named, insts, fromBitCode, kind, given, out, err, calls>>

AttrLoad ==
  /\ last \in {"built", "short"}
  /\ LET r == LoadAttr(kind, node, given.target)
     IN out' = r.rec /\ err' = r.err
  /\ last' = IF last = "built" THEN "load" ELSE "loadShort"
  /\ UNCHANGED <<named, insts, fromBitCode, kind, given, node, calls>>

NextAttr ==
  \/ AttrBuild
  \/ AttrTruncate
  \/ AttrLoad

SpecAttr == InitAttr /\ [][NextAttr]_vars

\* The loader of one class applied to the resource tuple of the node and to
\* record R.
ClassLoader(RC, R) ==
  CASE RC = ClassSRV -> LoadDxilSRV(Op(node, 1), R)
    [] RC = ClassUAV -> LoadDxilUAV(Op(node, 1), R)
    [] RC = ClassCBuffer -> LoadDxilCBuffer(Op(node, 1), R)
    [] RC = ClassSampler -> LoadDxilSampler(Op(node, 1), R)

\* A new record of the type the loader of class RC fills.
NewOfClass(RC) ==
  CASE RC \in {ClassSRV, ClassUAV} -> FreshResource
    [] RC = ClassCBuffer -> FreshCBuffer
    [] RC = ClassSampler -> FreshSampler

\* C27: each ...FromMDNode function fails on a node with fewer than two
\* operands; otherwise it reads the class in operand 0 and, when the class
\* is one it accepts (all four for LoadDxilResourceBaseFromMDNode, SRV and
\* UAV for LoadDxilResourceFromMDNode, Sampler for LoadDxilSamplerFromMDNode),
\* decodes operand 1 with exactly the loader of that class, an SRV ending
\* read-only (class SRV) and a UAV read-write (class UAV); for any other
\* class no loader runs, whatever operand 1 is, and the target is unchanged.
C27_DispatchOnResourceClass ==
  last \in {"load", "loadShort"} =>
    IF NumOperands(node) < 2 THEN err /\ out = given.target
    ELSE IF given.RC \notin AcceptedClasses(kind) THEN ~err /\ out = given.target
    ELSE /\ kind = "LoadDxilResourceBaseFromMDNode" =>
              LET r == ClassLoader(given.RC, NewOfClass(given.RC))
              IN /\ err = r.err
                 /\ out = IF r.err THEN given.target ELSE AssignBase(given.target, r.rec)
         /\ kind # "LoadDxilResourceBaseFromMDNode" =>
              LET r == ClassLoader(given.RC, given.target)
              IN err = r.err /\ out = r.rec
         /\ (~err /\ given.RC = ClassSRV) => out.class = ClassSRV
         /\ (~err /\ given.RC = ClassUAV) => out.class = ClassUAV
         /\ (~err /\ given.RC = given.payload.class) =>
              \A f \in DOMAIN FreshBase(ClassInvalid) : out[f] = given.payload[f]

\* LoadDxilResourceFromMDNode decoded a UAV tuple into a record in use: the
\* record is read-write and holds the fields of the tuple.
C27_Witness ==
  /\ kind = "LoadDxilResourceFromMDNode"
  /\ last = "load"
  /\ given.RC = ClassUAV
  /\ given.payload = AttrUAV
  /\ given.target.globalName = "old"
  /\ ~err
  /\ out.class = ClassUAV
  /\ out.globalName = "uav"
  /\ out.hasCounter

(***************************************************************************)
(* Claims about repeated dx.precise passes, checked under SpecPrecise.     *)
(***************************************************************************)
\* Instruction I carries the marker of a precise operation: the marker, and
\* the unsafe-algebra flag clear.
MarkedPrecise(I) == IsFPCall(I) /\ I.marker /\ ~I.unsafe

\* C28: after two load passes in succession on a module read from bitcode
\* every floating-point call instruction has the unsafe-algebra flag set and
\* no marker, the ones that carried the marker before the first pass
\* included; for these the second pass changed what the first had left.
C28_LoadTwiceRelaxesAll ==
  (fromBitCode /\ EndsWith(<<"load", "load">>)) =>
    /\ \A i \in DOMAIN insts :
         IF IsFPCall(insts[i])
           THEN insts[i].unsafe /\ ~insts[i].marker
           ELSE insts[i] = Before(2)[i]
    /\ \A i \in DOMAIN insts :
         MarkedPrecise(Before(2)[i]) => (~Before(1)[i].unsafe /\ insts[i] # Before(1)[i])
    /\ (\E i \in DOMAIN insts : MarkedPrecise(Before(2)[i])) => insts # Before(1)

\* A precise call and a relaxed call were loaded twice: the first pass took
\* the marker off the precise one and the second set its flag.
C28_Witness ==
  /\ fromBitCode
  /\ EndsWith(<<"load", "load">>)
  /\ MarkedPrecise(Before(2)[1])
  /\ ~Before(1)[1].marker /\ ~Before(1)[1].unsafe
  /\ insts[1].unsafe /\ ~insts[1].marker
  /\ IsFPCall(Before(2)[2]) /\ Before(2)[2].unsafe /\ ~Before(2)[2].marker
  /\ insts[2] = Before(2)[2]

\* C29: after two emit passes in succession every floating-point call
\* instruction has the unsafe-algebra flag clear and carries the marker, the
\* ones whose flag was set before the first pass included; a load pass that
\* follows leaves all of them with the flag clear.
C29_EmitTwiceMarksAll ==
  /\ EndsWith(<<"emit", "emit">>) =>
       \A i \in DOMAIN insts :
         IF IsFPCall(insts[i])
           THEN ~insts[i].unsafe /\ insts[i].marker
           ELSE insts[i] = Before(2)[i]
  /\ EndsWith(<<"emit", "emit", "load">>) =>
       \A i \in DOMAIN insts :
         IsFPCall(insts[i]) =>
           /\ ~insts[i].unsafe
           /\ fromBitCode => ~insts[i].marker

\* A relaxed call went through two emit passes and a load pass on a module
\* read from bitcode: unmarked after the first emit, marked after the
\* second, and left with the flag clear by the load.
C29_Witness ==
  /\ fromBitCode
  /\ EndsWith(<<"emit", "emit", "load">>)
  /\ IsFPCall(Before(3)[1]) /\ Before(3)[1].unsafe
  /\ ~Before(2)[1].marker /\ ~Before(2)[1].unsafe
  /\ Before(1)[1].marker
  /\ ~insts[1].unsafe /\ ~insts[1].marker

(***************************************************************************)
(* Claims about the known names, checked under SpecRegistry.               *)
(***************************************************************************)
\* C30: IsKnownNamedMetaData answers true exactly for dx.version,
\* dx.shaderModel, dx.entryPoints, dx.resources, dx.typeAnnotations, dx.valver
\* and dx.viewIdState and false for every other name; dx.rootSignature, the
\* entry EmitRootSignature writes, is among the others.
C30_SevenKnownNames ==
  /\ last = "IsKnownNamedMetaData" =>
       (out.known <=> out.name \in {"dx.version", "dx.shaderModel", "dx.entryPoints",
                                    "dx.resources", "dx.typeAnnotations", "dx.valver",
                                    "dx.viewIdState"})
  /\ (last = "EmitRootSignature" /\ ~err /\ ~out.empty) =>
       /\ named[kDxilRootSignatureMDName].present
       /\ \A n \in NamedMDNames :
            (named[n] # given[n]) => (n = "dx.rootSignature" /\ ~IsKnownNamedMetaData(n))

\* The module holds the root-signature entry, and the test was asked about
\* that entry and answered false.
C30_Witness ==
  /\ last = "IsKnownNamedMetaData"
  /\ named[kDxilRootSignatureMDName].present
  /\ out.name = "dx.rootSignature"
  /\ ~out.known

====
